---- MODULE Spec2Model ----
(***************************************************************************)
(* Lifecycle and concurrency core of the TCP/IP packet server:             *)
(* tcp.Server (Start, Stop, listen, handleNewClient, the client table) and *)
(* tcp.Client (listen, its reader goroutine, Close, SendBytes).            *)
(*                                                                         *)
(* Goroutines are processes with a program counter; a buffered channel of  *)
(* capacity one is the number of values it holds (0 or 1); an unbuffered   *)
(* channel is a rendezvous of the sender's and the receiver's step.        *)
(***************************************************************************)
EXTENDS Integers, Sequences, FiniteSets, TLC

\* ---------------------------------------------------------------- bounds
\* Transport connections the environment opens over the life of the server.
MaxConns == 2
\* Bytes the remote clients write, all connections together.
MaxBytes == 3
\* Connections the remote side ends (clean close or severance).
MaxHangups == 1
\* SendBytesAll calls made by user code.
MaxBroadcasts == 1
\* Client.SendBytes calls made by user code.
MaxSends == 1
\* Stop() calls made by user code.
MaxStops == 1
\* Client.Close() calls made by user code.
MaxCloses == 2
\* Concurrent callers of the guarded Stop().
MaxStoppers == 2
\* Start() calls that return an error.
MaxStartErrs == 1
\* Generations of the lifecycle channels (Start() calls that got as far as
\* making them) beyond which Start() is not called once more.
MaxRuns == 2

\* ------------------------------------------------------ program constants
\* The configured delimiter byte (ServerConfig.Delim).
Delim == 0
\* A payload byte that is no delimiter (the "\n" that ends TestMessage).
Newline == 10

Conns == 1..MaxConns
Stoppers == 1..MaxStoppers
Bytes == {Delim, Newline}
NoConn == 0

VARIABLES
  listener,        \* Server.listener: "nil", "open" or "closed"
  clients,         \* Server.clients: identifier -> connection
  nextClientID,    \* Server.nextClientID
  chStarted,       \* Server.chStarted (capacity 1)
  chKill,          \* Server.chKill (capacity 1)
  chStopped,       \* Server.chStopped (capacity 1)
  srvPc,           \* position of the goroutine running Server.listen
  srvCur,          \* the client the shutdown loop is waiting for
  accPc,           \* position of the accept goroutine
  accConn,         \* the connection the accept goroutine holds
  chListenerDone,  \* chListenerDone (capacity 1)
  nConns,          \* connections accepted so far
  id,              \* Client.id of each connection (-1: no Client yet)
  wPc,             \* position of each Client.listen goroutine
  rPc,             \* position of each reader goroutine
  rMsg,            \* the message a reader is sending on chReader
  chStop,          \* Client.chStop (capacity 1)
  chDone,          \* Client.chDone (capacity 1)
  chReaderDone,    \* chReaderDone (capacity 1)
  inbuf,           \* bytes received from the peer and not yet read
  peer,            \* the remote end: "open", "eof" or "reset"
  connClosed,      \* how often conn.Close() was called on the transport
  outbuf,          \* bytes written to the peer
  written,         \* every byte the peer has written, in order
  log,             \* callbacks invoked for each connection, in order
  forgets,         \* forgetClient calls that removed the entry
  nBytes,          \* bytes written by the remote clients so far
  nHangups,        \* connections ended by the remote side so far
  permErr,         \* a permanent accept error occurred on the open listener
  stopCalls,       \* Stop() calls so far
  closedBySrv,     \* connections the shutdown loop has called Close() on
  accDoneSeen,     \* the shutdown has received chListenerDone
  bcast,           \* outcome of the SendBytesAll calls so far
  closePc,         \* user code calling Client.Close() on each connection
  closeCalls,      \* Client.Close() calls made by user code so far
  startSeen,       \* values the caller of Start() took from chStarted
  started,         \* Server.started, the running sentinel
  mu,              \* Server.mu: 0 (unlocked) or the Stop() caller that holds it
  stopPc,          \* position of each caller of the guarded Stop()
  stopCh,          \* the completion channel each Stop() caller was handed
  chRetired,       \* replaced completion channels that still hold a value
  kills,           \* stop requests the guarded Stop() has sent so far
  chGen,           \* how often Start() has made the lifecycle channels
  startErrs,       \* the errors Start() calls have returned so far
  lateDone,        \* listen goroutines of earlier runs yet to evaluate o.chDone
  sendCh,          \* the o.chDone channels the completion sends have evaluated
  field,           \* what o.listener holds: the first socket, nil or a second
  rsPc,            \* position of the caller of Start() on a started server
  bc,              \* the SendBytesAll call in progress
  sends,           \* outcome of the Client.SendBytes calls of user code
  loop,            \* the map object the shutdown loop ranges over
  g2,              \* the listen goroutine a second Start() has spawned
  selKill,         \* the chKill object the select waits on: "field" or "old"
  oldCh            \* values left in the channels Start() has replaced

vars == <<listener, clients, nextClientID, chStarted, chKill, chStopped, srvPc,
          srvCur, accPc, accConn, chListenerDone, nConns, id, wPc, rPc, rMsg,
          chStop, chDone, chReaderDone, inbuf, peer, connClosed, outbuf, written,
          log,
          forgets, nBytes, nHangups, permErr, stopCalls, closedBySrv,
          accDoneSeen, bcast, closePc, closeCalls, startSeen, started, mu, stopPc,
          stopCh, chRetired, kills, chGen, startErrs, lateDone, sendCh, field,
          rsPc, bc, sends, loop, g2, selKill, oldCh>>

srvVars == <<listener, clients, nextClientID, chStarted, chKill, chStopped,
             srvPc, srvCur, stopCalls, closedBySrv, accDoneSeen>>
accVars == <<accPc, accConn, chListenerDone, nConns, permErr>>
cliVars == <<id, wPc, rPc, rMsg, chStop, chDone, chReaderDone, connClosed,
             log, forgets>>
netVars == <<inbuf, peer, outbuf, written, nBytes, nHangups>>
restartVars == <<loop, g2, selKill, oldCh>>
callVars == <<closePc, closeCalls, startSeen, started, mu, stopPc, stopCh,
              chRetired, kills, chGen, startErrs, lateDone, sendCh, field, rsPc, bc,
              sends, loop, g2>>
apiVars == <<callVars, selKill, oldCh>>
closeVars == <<closePc, closeCalls, startSeen>>
guardVars == <<started, mu, stopPc, stopCh, chRetired, kills, chGen,
               startErrs, lateDone, sendCh, field, rsPc, restartVars>>
sendVars == <<bc, sends>>
apiButG2 ==
  <<closePc, closeCalls, startSeen, started, mu, stopPc, stopCh, chRetired,
    kills, chGen, startErrs, lateDone, sendCh, field, rsPc, bc, sends, loop,
    selKill, oldCh>>

\* ------------------------------------------------------------- callbacks
EvConnect == [ev |-> "connect", msg |-> <<>>]
EvDisconnect == [ev |-> "disconnect", msg |-> <<>>]
EvMessage(m) == [ev |-> "message", msg |-> m]

\* --------------------------------------------------------- pure functions
\* Index of the first delimiter in buf, 0 when there is none.
IndexByte(buf, d) ==
  IF \E i \in 1..Len(buf) : buf[i] = d
  THEN CHOOSE i \in 1..Len(buf) :
         buf[i] = d /\ \A j \in 1..(i - 1) : buf[j] # d
  ELSE 0

\* Mutant: a reader that cuts the delimiter off the message.
ReadStringStripped(buf, d) ==
  LET i == IndexByte(buf, d)
  IN IF i = 0
     THEN [ok |-> FALSE, msg |-> buf, rest |-> <<>>]
     ELSE [ok |-> TRUE, msg |-> SubSeq(buf, 1, i - 1),
           rest |-> SubSeq(buf, i + 1, Len(buf))]

\* bufio.Reader.ReadString as the reader goroutine uses it: the data up to
\* and including the first delimiter, and what is left in the stream.
ReadString(buf, d) ==
  LET i == IndexByte(buf, d)
  IN IF i = 0
     THEN [ok |-> FALSE, msg |-> buf, rest |-> <<>>]
     ELSE [ok |-> TRUE, msg |-> SubSeq(buf, 1, i),
           rest |-> SubSeq(buf, i + 1, Len(buf))]

\* Mutant: the counter is read but not incremented.
getNextClientID(n) == [id |-> n, next |-> n]

getAndIncrementNextClientID(n) == [id |-> n, next |-> n + 1]

\* Mutant: the client is not put into the table.
addNothing(cl, c, i) == cl

addClient(cl, c, i) ==
  [j \in (DOMAIN cl) \cup {i} |-> IF j = i THEN c ELSE cl[j]]

\* Mutant: nothing is deleted.
forgetNothing(cl, i) == cl

\* Mutant: the whole table is cleared.
forgetEveryone(cl, i) == << >>

forgetClient(cl, i) == [j \in (DOMAIN cl) \ {i} |-> cl[j]]

\* The callbacks run on the worker goroutine of their connection.
InCallback(c) == wPc[c] \in {"onConnect", "onMessage", "onDisconnect"}

\* The worker of c is inside a SendBytesAll call it made from a callback.
CallPending(c) == bc.pc # "idle" /\ bc.caller = c

NoCall ==
  [pc |-> "idle", caller |-> NoConn, pyld |-> <<>>, cur |-> NoConn,
   start |-> {}, tried |-> {}, sent |-> {}, failed |-> {}, late |-> {},
   err |-> FALSE]

\* The listen goroutines, as the goroutine that writes the table (the
\* workers are named by their connection, a goroutine of user code by
\* NoConn).
Listener == -1

\* The shutdown loop ranges over the map o.clients holds.
SameMap == [old |-> FALSE, tab |-> << >>, skip |-> {}]

\* No second listen goroutine has been spawned.
NoListen ==
  [pc |-> "none", cur |-> NoConn, sock |-> "nil", acc |-> "none",
   conn |-> NoConn, done |-> 0, closed |-> {}]

\* The replaced channels hold nothing.
NoValues == [started |-> 0, kill |-> 0, stopped |-> 0]

\* No completion send has evaluated its channel: cur is the generation of
\* the o.chDone the running listen goroutine sends on, late the one of the
\* listen goroutine of an earlier run (0: none).
NoSend == [cur |-> 0, late |-> 0]

\* ------------------------------------------------------------------ Init
Init ==
  /\ listener = "nil"
  /\ clients = << >>
  /\ nextClientID = 0
  /\ chStarted = 0
  /\ chKill = 0
  /\ chStopped = 0
  /\ srvPc = "none"
  /\ srvCur = NoConn
  /\ accPc = "none"
  /\ accConn = NoConn
  /\ chListenerDone = 0
  /\ nConns = 0
  /\ id = [k \in Conns |-> -1]
  /\ wPc = [k \in Conns |-> "none"]
  /\ rPc = [k \in Conns |-> "none"]
  /\ rMsg = [k \in Conns |-> <<>>]
  /\ chStop = [k \in Conns |-> 0]
  /\ chDone = [k \in Conns |-> 0]
  /\ chReaderDone = [k \in Conns |-> 0]
  /\ inbuf = [k \in Conns |-> <<>>]
  /\ peer = [k \in Conns |-> "open"]
  /\ connClosed = [k \in Conns |-> 0]
  /\ outbuf = [k \in Conns |-> <<>>]
  /\ written = [k \in Conns |-> <<>>]
  /\ log = [k \in Conns |-> <<>>]
  /\ forgets = [k \in Conns |-> 0]
  /\ nBytes = 0
  /\ nHangups = 0
  /\ permErr = FALSE
  /\ stopCalls = 0
  /\ closedBySrv = {}
  /\ accDoneSeen = FALSE
  /\ bcast = <<>>
  /\ closePc = [k \in Conns |-> "idle"]
  /\ closeCalls = 0
  /\ startSeen = 0
  /\ started = FALSE
  /\ mu = 0
  /\ stopPc = [k \in Stoppers |-> "idle"]
  /\ stopCh = [k \in Stoppers |-> 0]
  /\ chRetired = {}
  /\ kills = 0
  /\ chGen = 0
  /\ startErrs = <<>>
  /\ lateDone = 0
  /\ sendCh = NoSend
  /\ field = "first"
  /\ rsPc = "idle"
  /\ bc = NoCall
  /\ sends = <<>>
  /\ loop = SameMap
  /\ g2 = NoListen
  /\ selKill = "field"
  /\ oldCh = NoValues

\* The process is alive: no fatal runtime error has ended it.
Running == srvPc # "fatal"

\* ------------------------------------------------------- Server.Start/Stop
\* Start: (re)initialise the table and the channels, bind, go o.listen().
Start ==
  /\ srvPc = "none"
  /\ clients' = << >>
  /\ chStarted' = 0
  /\ chKill' = 0
  /\ chStopped' = 0
  /\ listener' = "open"
  /\ srvPc' = "listen"
  /\ UNCHANGED <<nextClientID, srvCur, stopCalls, closedBySrv, accDoneSeen>>
  /\ UNCHANGED <<accVars, cliVars, netVars, bcast>>
  /\ UNCHANGED apiVars

\* Stop: send the kill signal (the send blocks while chKill is full).
Stop ==
  /\ Running
  /\ srvPc # "none"
  /\ stopCalls < MaxStops
  /\ chKill = 0
  /\ chKill' = 1
  /\ stopCalls' = stopCalls + 1
  /\ UNCHANGED <<listener, clients, nextClientID, chStarted, chStopped, srvPc,
                 srvCur, closedBySrv, accDoneSeen>>
  /\ UNCHANGED <<accVars, cliVars, netVars, bcast>>
  /\ UNCHANGED apiVars

\* ----------------------------------------------------------- Server.listen
\* Mutant: the select loop is entered without the "started" signal.
ListenBeginSilent ==
  /\ srvPc = "listen"
  /\ accPc' = "accept"
  /\ srvPc' = "select"
  /\ UNCHANGED <<listener, clients, nextClientID, chStarted, chKill,
                 chStopped, srvCur, stopCalls, closedBySrv, accDoneSeen>>
  /\ UNCHANGED <<accConn, chListenerDone, nConns, permErr>>
  /\ UNCHANGED <<cliVars, netVars, bcast, apiVars>>

\* Spawn the accept goroutine and report "started" on the channel
\* o.chStarted holds (the send blocks while that channel is full).
ListenBegin ==
  /\ srvPc = "listen"
  /\ chStarted = 0
  /\ accPc' = "accept"
  /\ chStarted' = 1
  /\ srvPc' = "select"
  /\ UNCHANGED <<listener, clients, nextClientID, chKill, chStopped, srvCur,
                 stopCalls, closedBySrv, accDoneSeen>>
  /\ UNCHANGED <<accConn, chListenerDone, nConns, permErr>>
  /\ UNCHANGED <<cliVars, netVars, bcast>>
  /\ UNCHANGED apiVars

\* Mutant: chDone is made without a buffer, so a send finds no room unless
\* a receiver is waiting.
CreateClientUnbuffered(i) == [id |-> i, chStop |-> 0, chDone |-> 1]

\* CreateClient: the fields of a new Client.
CreateClient(i) == [id |-> i, chStop |-> 0, chDone |-> 0]

\* select, case conn := <-chListener (ok): the accept goroutine hands over,
\* o.handleNewClient(conn) is next. The next pass of the loop evaluates
\* o.chKill anew.
ListenRecvConn ==
  /\ srvPc = "select"
  /\ accPc = "send"
  /\ srvCur' = accConn
  /\ srvPc' = "handle"
  /\ accPc' = "accept"
  /\ accConn' = NoConn
  /\ selKill' = "field"
  /\ UNCHANGED <<listener, clients, nextClientID, chStarted, chKill,
                 chStopped, stopCalls, closedBySrv, accDoneSeen>>
  /\ UNCHANGED <<chListenerDone, nConns, permErr>>
  /\ UNCHANGED <<cliVars, netVars, bcast, callVars, oldCh>>

\* handleNewClient, "id := o.getAndIncrementNextClientID()" (under the
\* mutex) and "client := CreateClient(id, ...)".
handleNewClientID ==
  /\ srvPc = "handle"
  /\ mu = 0
  /\ LET g == getAndIncrementNextClientID(nextClientID)
         o == CreateClient(g.id)
     IN /\ nextClientID' = g.next
        /\ id' = [id EXCEPT ![srvCur] = o.id]
        /\ chStop' = [chStop EXCEPT ![srvCur] = o.chStop]
        /\ chDone' = [chDone EXCEPT ![srvCur] = o.chDone]
  /\ srvPc' = "add"
  /\ UNCHANGED <<listener, clients, chStarted, chKill, chStopped, srvCur,
                 stopCalls, closedBySrv, accDoneSeen>>
  /\ UNCHANGED <<wPc, rPc, rMsg, chReaderDone, connClosed, log, forgets>>
  /\ UNCHANGED <<accVars, netVars, bcast, apiVars>>

\* A range over o.clients that holds no mutex is about to advance while
\* goroutine w writes the map the field holds: the shutdown loop of a
\* listen goroutine, or the loop of a SendBytesAll call made on another
\* goroutine than w.
RangeInProgress(w) ==
  \/ srvPc = "range" /\ ~loop.old
  \/ g2.pc = "range"
  \/ bc.pc = "range" /\ bc.caller # w

\* handleNewClient, "o.addClient(client, id)" (under the mutex).
handleNewClientAdd ==
  /\ srvPc = "add"
  /\ mu = 0
  /\ clients' = addClient(clients, srvCur, id[srvCur])
  /\ srvPc' = "spawn"
  /\ UNCHANGED <<listener, nextClientID, chStarted, chKill, chStopped, srvCur,
                 stopCalls, closedBySrv, accDoneSeen>>
  /\ UNCHANGED <<accVars, cliVars, netVars, bcast, apiVars>>

\* o.addClient while the range of SendBytesAll, which holds no mutex,
\* advances over the same map: a data race, which the runtime may end with
\* "concurrent map iteration and map write". The process ends.
handleNewClientAddRace ==
  /\ srvPc = "add"
  /\ mu = 0
  /\ RangeInProgress(Listener)
  /\ clients' = addClient(clients, srvCur, id[srvCur])
  /\ srvPc' = "fatal"
  /\ UNCHANGED <<listener, nextClientID, chStarted, chKill, chStopped, srvCur,
                 stopCalls, closedBySrv, accDoneSeen>>
  /\ UNCHANGED <<accVars, cliVars, netVars, bcast, apiVars>>

\* handleNewClient, "go client.listen()", and back to the select.
handleNewClientGo ==
  /\ srvPc = "spawn"
  /\ wPc' = [wPc EXCEPT ![srvCur] = "start"]
  /\ srvCur' = NoConn
  /\ srvPc' = "select"
  /\ UNCHANGED <<listener, clients, nextClientID, chStarted, chKill,
                 chStopped, stopCalls, closedBySrv, accDoneSeen>>
  /\ UNCHANGED <<id, rPc, rMsg, chStop, chDone, chReaderDone, connClosed, log,
                 forgets>>
  /\ UNCHANGED <<accVars, netVars, bcast, apiVars>>

\* select, case <-chListener (closed): the accept goroutine has given up,
\* stop = true and the loop is left.
ListenRecvClosed ==
  /\ srvPc = "select"
  /\ accPc \in {"closed", "done"}
  /\ srvPc' = "closing"
  /\ selKill' = "field"
  /\ UNCHANGED <<listener, clients, nextClientID, chStarted, chKill,
                 chStopped, srvCur, stopCalls, closedBySrv, accDoneSeen>>
  /\ UNCHANGED <<accVars, cliVars, netVars, bcast>>
  /\ UNCHANGED <<callVars, oldCh>>

\* select, case <-o.chKill: the receive is from the channel object the
\* select evaluated, the one o.chKill holds or the one it held before
\* Start() replaced it. stop = true and the loop is left.
ListenRecvKill ==
  /\ srvPc = "select"
  /\ IF selKill = "old"
     THEN /\ oldCh.kill = 1
          /\ oldCh' = [oldCh EXCEPT !.kill = 0]
          /\ UNCHANGED chKill
     ELSE /\ chKill = 1
          /\ chKill' = 0
          /\ UNCHANGED oldCh
  /\ selKill' = "field"
  /\ srvPc' = "closing"
  /\ UNCHANGED <<listener, clients, nextClientID, chStarted, chStopped,
                 srvCur, stopCalls, closedBySrv, accDoneSeen>>
  /\ UNCHANGED <<accVars, cliVars, netVars, bcast>>
  /\ UNCHANGED callVars

\* o.listener.Close() after the loop.
ListenClose ==
  /\ srvPc = "closing"
  /\ listener' = "closed"
  /\ srvPc' = "waitListener"
  /\ UNCHANGED <<clients, nextClientID, chStarted, chKill, chStopped, srvCur,
                 stopCalls, closedBySrv, accDoneSeen>>
  /\ UNCHANGED <<accVars, cliVars, netVars, bcast>>
  /\ UNCHANGED apiVars

\* Mutant: the shutdown does not wait for the accept goroutine.
ListenSkipListenerDone ==
  /\ srvPc = "waitListener"
  /\ srvPc' = "range"
  /\ UNCHANGED <<listener, clients, nextClientID, chStarted, chKill,
                 chStopped, srvCur, stopCalls, closedBySrv, accDoneSeen>>
  /\ UNCHANGED <<accVars, cliVars, netVars, bcast>>
  /\ UNCHANGED apiVars

\* Mutant: while it waits for the accept goroutine, the shutdown still
\* takes over a connection that is offered on chListener.
ListenWaitListenerOrDrain ==
  \/ /\ srvPc = "waitListener"
     /\ accPc = "send"
     /\ srvCur' = accConn
     /\ srvPc' = "handle"
     /\ accPc' = "accept"
     /\ accConn' = NoConn
     /\ UNCHANGED <<listener, clients, nextClientID, chStarted, chKill,
                    chStopped, stopCalls, closedBySrv, accDoneSeen>>
     /\ UNCHANGED <<chListenerDone, nConns, permErr>>
     /\ UNCHANGED <<cliVars, netVars, bcast, apiVars>>
  \/ /\ srvPc = "waitListener"
     /\ chListenerDone = 1
     /\ chListenerDone' = 0
     /\ accDoneSeen' = TRUE
     /\ srvPc' = "range"
     /\ UNCHANGED <<listener, clients, nextClientID, chStarted, chKill,
                    chStopped, srvCur, stopCalls, closedBySrv>>
     /\ UNCHANGED <<accPc, accConn, nConns, permErr>>
     /\ UNCHANGED <<cliVars, netVars, bcast, apiVars>>

\* <-chListenerDone
ListenWaitListener ==
  /\ srvPc = "waitListener"
  /\ chListenerDone = 1
  /\ chListenerDone' = 0
  /\ accDoneSeen' = TRUE
  /\ srvPc' = "range"
  /\ UNCHANGED <<listener, clients, nextClientID, chStarted, chKill,
                 chStopped, srvCur, stopCalls, closedBySrv>>
  /\ UNCHANGED <<accPc, accConn, nConns, permErr>>
  /\ UNCHANGED <<cliVars, netVars, bcast>>
  /\ UNCHANGED apiVars

\* Client.Close(): o.chStop <- true (blocks while chStop is full).
Close(c) ==
  /\ chStop[c] = 0
  /\ chStop' = [chStop EXCEPT ![c] = 1]

\* Mutant: the loop body never runs.
RangeNothing(cl) == {}

\* for _, e := range o.clients: the entries the loop can still produce.
RangeClients(cl) == {cl[i] : i \in DOMAIN cl}

\* The range expression is evaluated once, when the loop begins. While
\* o.clients holds that map the loop sees every delete, and an entry that
\* is created during the iteration is produced or skipped (loop.skip);
\* once Start() has put a new map into the field, the loop goes on over
\* the old one, which nobody writes any more, and produces each of its
\* entries once.
LoopRest ==
  IF loop.old THEN RangeClients(loop.tab) \ closedBySrv
  ELSE RangeClients(clients) \ loop.skip

\* for _, e := range o.clients { <-e.Close() }: the call of Close.
RangeClose(c) ==
  /\ srvPc = "range"
  /\ c \in LoopRest
  /\ Close(c)
  /\ srvCur' = c
  /\ closedBySrv' = closedBySrv \cup {c}
  /\ srvPc' = "waitClient"
  /\ UNCHANGED <<listener, clients, nextClientID, chStarted, chKill,
                 chStopped, stopCalls, accDoneSeen>>
  /\ UNCHANGED <<id, wPc, rPc, rMsg, chDone, chReaderDone, connClosed, log,
                 forgets>>
  /\ UNCHANGED <<accVars, netVars, bcast>>
  /\ UNCHANGED apiVars

\* for _, e := range o.clients { <-e.Close() }: the receive from chDone.
RangeWait ==
  /\ srvPc = "waitClient"
  /\ chDone[srvCur] = 1
  /\ chDone' = [chDone EXCEPT ![srvCur] = 0]
  /\ srvCur' = NoConn
  /\ srvPc' = "range"
  /\ UNCHANGED <<listener, clients, nextClientID, chStarted, chKill,
                 chStopped, stopCalls, closedBySrv, accDoneSeen>>
  /\ UNCHANGED <<id, wPc, rPc, rMsg, chStop, chReaderDone, connClosed, log,
                 forgets>>
  /\ UNCHANGED <<accVars, netVars, bcast>>
  /\ UNCHANGED apiVars

\* The range loop is over: o.chStopped <- true.
ListenStopped ==
  /\ srvPc = "range"
  /\ LoopRest = {}
  /\ chStopped = 0
  /\ chStopped' = 1
  /\ srvPc' = "done"
  /\ UNCHANGED <<listener, clients, nextClientID, chStarted, chKill, srvCur,
                 stopCalls, closedBySrv, accDoneSeen>>
  /\ UNCHANGED <<accVars, cliVars, netVars, bcast>>
  /\ UNCHANGED apiVars

\* ------------------------------------------------------ accept goroutine
\* o.listener.Accept() returns a connection.
AcceptOk ==
  /\ Running
  /\ accPc = "accept"
  /\ listener = "open"
  /\ nConns < MaxConns
  /\ nConns' = nConns + 1
  /\ accConn' = nConns + 1
  /\ accPc' = "send"
  /\ UNCHANGED <<chListenerDone, permErr>>
  /\ UNCHANGED <<srvVars, cliVars, netVars, bcast>>
  /\ UNCHANGED apiVars

\* Accept fails with a temporary error: time.Sleep(1 * time.Second).
AcceptTempErr ==
  /\ Running
  /\ accPc = "accept"
  /\ listener = "open"
  /\ accPc' = "sleep"
  /\ UNCHANGED <<accConn, chListenerDone, nConns, permErr>>
  /\ UNCHANGED <<srvVars, cliVars, netVars, bcast>>
  /\ UNCHANGED apiVars

\* Mutant: after the backoff the accept goroutine leaves its loop.
AcceptGiveUp ==
  /\ Running
  /\ accPc = "sleep"
  /\ accPc' = "closed"
  /\ UNCHANGED <<accConn, chListenerDone, nConns, permErr>>
  /\ UNCHANGED <<srvVars, cliVars, netVars, bcast, apiVars>>

\* The sleep is over: back to Accept.
AcceptWake ==
  /\ Running
  /\ accPc = "sleep"
  /\ accPc' = "accept"
  /\ UNCHANGED <<accConn, chListenerDone, nConns, permErr>>
  /\ UNCHANGED <<srvVars, cliVars, netVars, bcast>>
  /\ UNCHANGED apiVars

\* Accept fails because the listener was closed: break, close(chListener).
AcceptClosed ==
  /\ Running
  /\ accPc = "accept"
  /\ listener = "closed"
  /\ accPc' = "closed"
  /\ UNCHANGED <<accConn, chListenerDone, nConns, permErr>>
  /\ UNCHANGED <<srvVars, cliVars, netVars, bcast>>
  /\ UNCHANGED apiVars

\* Accept fails with a permanent error on the open listener: break,
\* close(chListener).
AcceptPermErr ==
  /\ Running
  /\ accPc = "accept"
  /\ listener = "open"
  /\ permErr' = TRUE
  /\ accPc' = "closed"
  /\ UNCHANGED <<accConn, chListenerDone, nConns>>
  /\ UNCHANGED <<srvVars, cliVars, netVars, bcast>>
  /\ UNCHANGED apiVars

\* chListenerDone <- true
AcceptDone ==
  /\ Running
  /\ accPc = "closed"
  /\ chListenerDone' = 1
  /\ accPc' = "done"
  /\ UNCHANGED <<accConn, nConns, permErr>>
  /\ UNCHANGED <<srvVars, cliVars, netVars, bcast>>
  /\ UNCHANGED apiVars

\* ----------------------------------------------------------- Client.listen
\* o.server.onNewClient(o): the callback is invoked.
WorkerOnNewClient(c) ==
  /\ Running
  /\ wPc[c] = "start"
  /\ log' = [log EXCEPT ![c] = Append(@, EvConnect)]
  /\ wPc' = [wPc EXCEPT ![c] = "onConnect"]
  /\ UNCHANGED <<id, rPc, rMsg, chStop, chDone, chReaderDone, connClosed,
                 forgets>>
  /\ UNCHANGED <<srvVars, accVars, netVars, bcast>>
  /\ UNCHANGED apiVars

\* The callback has returned: make chReader and chReaderDone, start the
\* reader goroutine, enter the select loop.
WorkerSpawnReader(c) ==
  /\ Running
  /\ wPc[c] = "onConnect"
  /\ ~CallPending(c)
  /\ rPc' = [rPc EXCEPT ![c] = "read"]
  /\ wPc' = [wPc EXCEPT ![c] = "select"]
  /\ UNCHANGED <<id, rMsg, chStop, chDone, chReaderDone, connClosed, log,
                 forgets>>
  /\ UNCHANGED <<srvVars, accVars, netVars, bcast>>
  /\ UNCHANGED apiVars

\* Mutant: the message is handed to onNewMessage but stays offered on
\* chReader.
WorkerRecvMsgAgain(c) ==
  /\ Running
  /\ wPc[c] = "select"
  /\ rPc[c] = "send"
  /\ log' = [log EXCEPT ![c] = Append(@, EvMessage(rMsg[c]))]
  /\ wPc' = [wPc EXCEPT ![c] = "onMessage"]
  /\ UNCHANGED <<id, rPc, rMsg, chStop, chDone, chReaderDone, connClosed,
                 forgets>>
  /\ UNCHANGED <<srvVars, accVars, netVars, bcast>>
  /\ UNCHANGED apiVars

\* select, case msg := <-chReader (ok): o.server.onNewMessage(o, msg).
WorkerRecvMsg(c) ==
  /\ Running
  /\ wPc[c] = "select"
  /\ rPc[c] = "send"
  /\ log' = [log EXCEPT ![c] = Append(@, EvMessage(rMsg[c]))]
  /\ rMsg' = [rMsg EXCEPT ![c] = <<>>]
  /\ rPc' = [rPc EXCEPT ![c] = "read"]
  /\ wPc' = [wPc EXCEPT ![c] = "onMessage"]
  /\ UNCHANGED <<id, chStop, chDone, chReaderDone, connClosed, forgets>>
  /\ UNCHANGED <<srvVars, accVars, netVars, bcast>>
  /\ UNCHANGED apiVars

\* onNewMessage has returned: back to the select.
WorkerMsgReturn(c) ==
  /\ Running
  /\ wPc[c] = "onMessage"
  /\ ~CallPending(c)
  /\ wPc' = [wPc EXCEPT ![c] = "select"]
  /\ UNCHANGED <<id, rPc, rMsg, chStop, chDone, chReaderDone, connClosed,
                 log, forgets>>
  /\ UNCHANGED <<srvVars, accVars, netVars, bcast>>
  /\ UNCHANGED apiVars

\* Mutant: the callback is invoked but stop is not set, so the loop goes on.
WorkerStayInLoop(c) ==
  /\ log' = [log EXCEPT ![c] = Append(@, EvDisconnect)]
  /\ wPc' = [wPc EXCEPT ![c] = "select"]

\* The loop is left (stop = true): o.server.onClientConnectionClosed(o).
WorkerLeaveLoop(c) ==
  /\ log' = [log EXCEPT ![c] = Append(@, EvDisconnect)]
  /\ wPc' = [wPc EXCEPT ![c] = "onDisconnect"]

\* Mutant: on a closed chReader the entry is removed before the callback
\* is invoked.
WorkerRecvClosedForgetFirst(c) ==
  /\ Running
  /\ wPc[c] = "select"
  /\ rPc[c] = "done"
  /\ clients' = forgetClient(clients, id[c])
  /\ forgets' = [forgets EXCEPT ![c] = @ + 1]
  /\ log' = [log EXCEPT ![c] = Append(@, EvDisconnect)]
  /\ wPc' = [wPc EXCEPT ![c] = "onDisconnect"]
  /\ UNCHANGED <<listener, nextClientID, chStarted, chKill, chStopped, srvPc,
                 srvCur, stopCalls, closedBySrv, accDoneSeen>>
  /\ UNCHANGED <<id, rPc, rMsg, chStop, chDone, chReaderDone, connClosed>>
  /\ UNCHANGED <<accVars, netVars, bcast>>
  /\ UNCHANGED apiVars

\* select, case <-chReader (closed).
WorkerRecvClosed(c) ==
  /\ Running
  /\ wPc[c] = "select"
  /\ rPc[c] = "done"
  /\ WorkerLeaveLoop(c)
  /\ UNCHANGED <<id, rPc, rMsg, chStop, chDone, chReaderDone, connClosed,
                 forgets>>
  /\ UNCHANGED <<srvVars, accVars, netVars, bcast>>
  /\ UNCHANGED apiVars

\* select, case <-o.chStop.
WorkerRecvStop(c) ==
  /\ Running
  /\ wPc[c] = "select"
  /\ chStop[c] = 1
  /\ chStop' = [chStop EXCEPT ![c] = 0]
  /\ WorkerLeaveLoop(c)
  /\ UNCHANGED <<id, rPc, rMsg, chDone, chReaderDone, connClosed, forgets>>
  /\ UNCHANGED <<srvVars, accVars, netVars, bcast>>
  /\ UNCHANGED apiVars

\* onClientConnectionClosed has returned: o.server.forgetClient(o), which
\* takes the server's mutex.
WorkerForget(c) ==
  /\ Running
  /\ wPc[c] = "onDisconnect"
  /\ ~CallPending(c)
  /\ mu = 0
  /\ clients' = forgetClient(clients, id[c])
  /\ forgets' = [forgets EXCEPT
                   ![c] = IF clients' # clients THEN @ + 1 ELSE @]
  /\ wPc' = [wPc EXCEPT ![c] = "connClose"]
  /\ UNCHANGED <<listener, nextClientID, chStarted, chKill, chStopped, srvPc,
                 srvCur, stopCalls, closedBySrv, accDoneSeen>>
  /\ UNCHANGED <<id, rPc, rMsg, chStop, chDone, chReaderDone, connClosed,
                 log>>
  /\ UNCHANGED <<accVars, netVars, bcast>>
  /\ UNCHANGED apiVars

\* forgetClient while a range without the mutex advances over the map the
\* field holds (the shutdown loop at part_000:364, SendBytesAll at 56):
\* delete marks a map that is not empty as being written, whether the key
\* is in it or not, and the iterating goroutine that sees the mark ends
\* the process ("concurrent map iteration and map write").
WorkerForgetRace(c) ==
  /\ Running
  /\ wPc[c] = "onDisconnect"
  /\ ~CallPending(c)
  /\ mu = 0
  /\ DOMAIN clients # {}
  /\ RangeInProgress(c)
  /\ clients' = forgetClient(clients, id[c])
  /\ forgets' = [forgets EXCEPT
                   ![c] = IF clients' # clients THEN @ + 1 ELSE @]
  /\ wPc' = [wPc EXCEPT ![c] = "connClose"]
  /\ srvPc' = "fatal"
  /\ UNCHANGED <<listener, nextClientID, chStarted, chKill, chStopped,
                 srvCur, stopCalls, closedBySrv, accDoneSeen>>
  /\ UNCHANGED <<id, rPc, rMsg, chStop, chDone, chReaderDone, connClosed,
                 log>>
  /\ UNCHANGED <<accVars, netVars, bcast>>
  /\ UNCHANGED apiVars

\* Mutant: the worker goes on without closing the transport.
WorkerSkipConnClose(c) ==
  /\ Running
  /\ wPc[c] = "connClose"
  /\ wPc' = [wPc EXCEPT ![c] = "waitReader"]
  /\ UNCHANGED <<id, rPc, rMsg, chStop, chDone, chReaderDone, connClosed, log,
                 forgets>>
  /\ UNCHANGED <<srvVars, accVars, netVars, bcast, apiVars>>

\* o.conn.Close()
WorkerConnClose(c) ==
  /\ Running
  /\ wPc[c] = "connClose"
  /\ connClosed' = [connClosed EXCEPT ![c] = @ + 1]
  /\ wPc' = [wPc EXCEPT ![c] = "waitReader"]
  /\ UNCHANGED <<id, rPc, rMsg, chStop, chDone, chReaderDone, log, forgets>>
  /\ UNCHANGED <<srvVars, accVars, netVars, bcast>>
  /\ UNCHANGED apiVars

\* Mutant: the worker does not wait for its reader.
WorkerSkipWaitReader(c) ==
  /\ Running
  /\ wPc[c] = "waitReader"
  /\ wPc' = [wPc EXCEPT ![c] = "sendDone"]
  /\ UNCHANGED <<id, rPc, rMsg, chStop, chDone, chReaderDone, connClosed, log,
                 forgets>>
  /\ UNCHANGED <<srvVars, accVars, netVars, bcast, apiVars>>

\* <-chReaderDone
WorkerWaitReader(c) ==
  /\ Running
  /\ wPc[c] = "waitReader"
  /\ chReaderDone[c] = 1
  /\ chReaderDone' = [chReaderDone EXCEPT ![c] = 0]
  /\ wPc' = [wPc EXCEPT ![c] = "sendDone"]
  /\ UNCHANGED <<id, rPc, rMsg, chStop, chDone, connClosed, log, forgets>>
  /\ UNCHANGED <<srvVars, accVars, netVars, bcast>>
  /\ UNCHANGED apiVars

\* o.chDone <- true
WorkerDone(c) ==
  /\ Running
  /\ wPc[c] = "sendDone"
  /\ chDone[c] = 0
  /\ chDone' = [chDone EXCEPT ![c] = 1]
  /\ wPc' = [wPc EXCEPT ![c] = "done"]
  /\ UNCHANGED <<id, rPc, rMsg, chStop, chReaderDone, connClosed, log,
                 forgets>>
  /\ UNCHANGED <<srvVars, accVars, netVars, bcast>>
  /\ UNCHANGED apiVars

\* ------------------------------------------------------- reader goroutine
\* The transport can no longer deliver: closed on this side or reset by
\* the peer.
Broken(c) == connClosed[c] > 0 \/ peer[c] = "reset"

\* reader.ReadString(o.delim) returns a message: chReader <- msg is next.
\* Bytes that arrived before the transport broke may already be buffered.
ReaderRead(c) ==
  /\ Running
  /\ rPc[c] = "read"
  /\ ReadString(inbuf[c], Delim).ok
  /\ rMsg' = [rMsg EXCEPT ![c] = ReadString(inbuf[c], Delim).msg]
  /\ inbuf' = [inbuf EXCEPT ![c] = ReadString(inbuf[c], Delim).rest]
  /\ rPc' = [rPc EXCEPT ![c] = "send"]
  /\ UNCHANGED <<id, wPc, chStop, chDone, chReaderDone, connClosed, log,
                 forgets>>
  /\ UNCHANGED <<peer, outbuf, written, nBytes, nHangups>>
  /\ UNCHANGED <<srvVars, accVars, bcast>>
  /\ UNCHANGED apiVars

\* reader.ReadString returns an error (io.EOF before a delimiter, or a
\* failed read): break, close(chReader), chReaderDone <- true. What was
\* read is dropped.
ReaderFail(c) ==
  /\ Running
  /\ rPc[c] = "read"
  /\ \/ peer[c] = "eof" /\ ~ReadString(inbuf[c], Delim).ok
     \/ Broken(c)
  /\ inbuf' = [inbuf EXCEPT ![c] = <<>>]
  /\ chReaderDone' = [chReaderDone EXCEPT ![c] = 1]
  /\ rPc' = [rPc EXCEPT ![c] = "done"]
  /\ UNCHANGED <<id, wPc, rMsg, chStop, chDone, connClosed, log, forgets>>
  /\ UNCHANGED <<peer, outbuf, written, nBytes, nHangups>>
  /\ UNCHANGED <<srvVars, accVars, bcast>>
  /\ UNCHANGED apiVars

\* ------------------------------------------------------ the remote clients
\* A client acts on a connection that the server has taken over and not
\* closed.
Connected(c) == wPc[c] # "none" /\ peer[c] = "open" /\ connClosed[c] = 0

\* A byte counts as received when the reader is waiting for it.
Receiving(c) == Connected(c) /\ rPc[c] = "read"

\* The client writes one byte.
ClientWrite(c, b) ==
  /\ Running
  /\ Receiving(c)
  /\ nBytes < MaxBytes
  /\ inbuf' = [inbuf EXCEPT ![c] = Append(@, b)]
  /\ written' = [written EXCEPT ![c] = Append(@, b)]
  /\ nBytes' = nBytes + 1
  /\ UNCHANGED <<peer, outbuf, nHangups>>
  /\ UNCHANGED <<srvVars, accVars, cliVars, bcast>>
  /\ UNCHANGED apiVars

\* The client closes the connection: the stream ends with EOF.
ClientClose(c) ==
  /\ Running
  /\ Connected(c)
  /\ nHangups < MaxHangups
  /\ nHangups' = nHangups + 1
  /\ peer' = [peer EXCEPT ![c] = "eof"]
  /\ UNCHANGED <<inbuf, outbuf, written, nBytes>>
  /\ UNCHANGED <<srvVars, accVars, cliVars, bcast>>
  /\ UNCHANGED apiVars

\* The connection is severed: reads and writes fail from now on.
ClientReset(c) ==
  /\ Running
  /\ Connected(c)
  /\ nHangups < MaxHangups
  /\ nHangups' = nHangups + 1
  /\ peer' = [peer EXCEPT ![c] = "reset"]
  /\ UNCHANGED <<inbuf, outbuf, written, nBytes>>
  /\ UNCHANGED <<srvVars, accVars, cliVars, bcast>>
  /\ UNCHANGED apiVars

\* ------------------------------------------------------------ SendBytesAll
\* Client.SendBytes: append the delimiter, conn.Write; the bytes written.
SendBytes(b) == Append(b, Delim)

\* conn.Write fails on a transport that is closed or severed.
WriteFails(c) == Broken(c)

\* What a finished SendBytesAll call found and did: the connections in the
\* table when the range began and when it ended, the outcome per send, and
\* (late) the connections sent to after a send had failed.
BcastRecord(r) ==
  [caller |-> r.caller, start |-> r.start, last |-> RangeClients(clients),
   tried |-> r.tried, sent |-> r.sent, failed |-> r.failed,
   late |-> r.late, err |-> r.err]

\* User code calls SendBytesAll(pyld), from a callback (on the worker of k)
\* or from a goroutine of its own: the range over o.clients begins.
SendBytesAll(k, pyld) ==
  /\ Running
  /\ srvPc # "none"
  /\ bc.pc = "idle"
  /\ Len(bcast) < MaxBroadcasts
  /\ k \in Conns => InCallback(k)
  /\ bc' = [NoCall EXCEPT !.pc = "range", !.caller = k, !.pyld = pyld,
                          !.start = RangeClients(clients)]
  /\ UNCHANGED <<srvVars, accVars, cliVars, netVars, bcast, sends>>
  /\ UNCHANGED <<closeVars, guardVars>>

\* The range produces the next client: an entry of the table as it is now
\* that was not produced before. The table is read without the mutex.
SendBytesAllRange(c) ==
  /\ Running
  /\ bc.pc = "range"
  /\ c \in RangeClients(clients) \ bc.tried
  /\ bc' = [bc EXCEPT !.pc = "write", !.cur = c]
  /\ UNCHANGED <<srvVars, accVars, cliVars, netVars, bcast, sends>>
  /\ UNCHANGED <<closeVars, guardVars>>

\* Mutant: the first failed send ends the call and is returned as an error.
SendBytesAllWriteAbort ==
  /\ Running
  /\ bc.pc = "write"
  /\ IF WriteFails(bc.cur)
     THEN /\ bc' = NoCall
          /\ bcast' = Append(bcast,
                        BcastRecord([bc EXCEPT !.tried = @ \cup {bc.cur},
                                               !.failed = @ \cup {bc.cur},
                                               !.err = TRUE]))
          /\ UNCHANGED outbuf
     ELSE /\ bc' = [bc EXCEPT !.pc = "range", !.cur = NoConn,
                              !.tried = @ \cup {bc.cur},
                              !.sent = @ \cup {bc.cur},
                              !.late = IF bc.failed = {} THEN @
                                       ELSE @ \cup {bc.cur}]
          /\ outbuf' = [outbuf EXCEPT ![bc.cur] = @ \o SendBytes(bc.pyld)]
          /\ UNCHANGED bcast
  /\ UNCHANGED <<inbuf, peer, written, nBytes, nHangups, sends>>
  /\ UNCHANGED <<srvVars, accVars, cliVars>>
  /\ UNCHANGED <<closeVars, guardVars>>

\* client.SendBytes(pyld) in the loop body: conn.Write; an error is logged
\* and the loop goes on.
SendBytesAllWrite ==
  /\ Running
  /\ bc.pc = "write"
  /\ IF WriteFails(bc.cur)
     THEN /\ bc' = [bc EXCEPT !.pc = "range", !.cur = NoConn,
                              !.tried = @ \cup {bc.cur},
                              !.failed = @ \cup {bc.cur}]
          /\ UNCHANGED outbuf
     ELSE /\ bc' = [bc EXCEPT !.pc = "range", !.cur = NoConn,
                              !.tried = @ \cup {bc.cur},
                              !.sent = @ \cup {bc.cur},
                              !.late = IF bc.failed = {} THEN @
                                       ELSE @ \cup {bc.cur}]
          /\ outbuf' = [outbuf EXCEPT ![bc.cur] = @ \o SendBytes(bc.pyld)]
  /\ UNCHANGED <<inbuf, peer, written, nBytes, nHangups, bcast, sends>>
  /\ UNCHANGED <<srvVars, accVars, cliVars>>
  /\ UNCHANGED <<closeVars, guardVars>>

\* The range ends and the call returns. An entry that was in the table
\* from the beginning of the range on has been produced; an entry added
\* during the range may have been left out.
SendBytesAllReturn ==
  /\ Running
  /\ bc.pc = "range"
  /\ (bc.start \cap RangeClients(clients)) \subseteq bc.tried
  /\ bcast' = Append(bcast, BcastRecord(bc))
  /\ bc' = NoCall
  /\ UNCHANGED <<srvVars, accVars, cliVars, netVars, sends>>
  /\ UNCHANGED <<closeVars, guardVars>>

\* User code calls SendBytes(pyld) on a client it was handed in a callback:
\* one conn.Write, whose error is returned.
ClientSendBytes(c, pyld) ==
  /\ Running
  /\ log[c] # <<>>
  /\ Len(sends) < MaxSends
  /\ sends' = Append(sends, [to |-> c, err |-> WriteFails(c)])
  /\ outbuf' = [outbuf EXCEPT
                  ![c] = IF WriteFails(c) THEN @ ELSE @ \o SendBytes(pyld)]
  /\ UNCHANGED <<inbuf, peer, written, nBytes, nHangups, bcast, bc>>
  /\ UNCHANGED <<srvVars, accVars, cliVars>>
  /\ UNCHANGED <<closeVars, guardVars>>

\* ------------------------------------------------------------------- Next
ServerStep ==
  \/ ListenBegin
  \/ ListenRecvConn
  \/ handleNewClientID
  \/ handleNewClientAdd
  \/ handleNewClientGo
  \/ ListenRecvClosed
  \/ ListenRecvKill
  \/ ListenClose
  \/ ListenWaitListener
  \/ \E c \in Conns : RangeClose(c)
  \/ RangeWait
  \/ ListenStopped

AcceptStep ==
  \/ AcceptOk
  \/ AcceptTempErr
  \/ AcceptWake
  \/ AcceptClosed
  \/ AcceptPermErr
  \/ AcceptDone

WorkerStep(c) ==
  \/ WorkerOnNewClient(c)
  \/ WorkerSpawnReader(c)
  \/ WorkerRecvMsg(c)
  \/ WorkerMsgReturn(c)
  \/ WorkerRecvClosed(c)
  \/ WorkerRecvStop(c)
  \/ WorkerForget(c)
  \/ WorkerForgetRace(c)
  \/ WorkerConnClose(c)
  \/ WorkerWaitReader(c)
  \/ WorkerDone(c)

ReaderStep(c) ==
  \/ ReaderRead(c)
  \/ ReaderFail(c)

ClientStep(c) ==
  \/ \E b \in Bytes : ClientWrite(c, b)
  \/ ClientClose(c)
  \/ ClientReset(c)

Next ==
  \/ Start
  \/ Stop
  \/ ServerStep
  \/ AcceptStep
  \/ \E c \in Conns : WorkerStep(c)
  \/ \E c \in Conns : ReaderStep(c)
  \/ \E c \in Conns : ClientStep(c)
  \/ \E c \in Conns : ClientSendBytes(c, <<Newline>>)

Spec == Init /\ [][Next]_vars

\* ------------------------------------------------- user code sending data
\* The server with user code that calls SendBytesAll and Client.SendBytes,
\* from the callbacks or from goroutines of its own, while connections
\* come and go. The remote clients send no data here.
SendNext ==
  \/ Start
  \/ Stop
  \/ ServerStep
  \/ AcceptStep
  \/ \E c \in Conns : WorkerOnNewClient(c)
  \/ \E c \in Conns : WorkerSpawnReader(c)
  \/ \E c \in Conns : WorkerRecvClosed(c)
  \/ \E c \in Conns : WorkerRecvStop(c)
  \/ \E c \in Conns : WorkerForget(c)
  \/ \E c \in Conns : WorkerForgetRace(c)
  \/ \E c \in Conns : WorkerConnClose(c)
  \/ \E c \in Conns : WorkerWaitReader(c)
  \/ \E c \in Conns : WorkerDone(c)
  \/ \E c \in Conns : ReaderFail(c)
  \/ \E c \in Conns : ClientClose(c)
  \/ \E c \in Conns : ClientReset(c)
  \/ \E k \in Conns \cup {NoConn} : SendBytesAll(k, <<Newline>>)
  \/ \E c \in Conns : SendBytesAllRange(c)
  \/ SendBytesAllWrite
  \/ SendBytesAllReturn
  \/ \E c \in Conns : ClientSendBytes(c, <<Newline>>)
  \/ handleNewClientAddRace

SendSpec == Init /\ [][SendNext]_vars

\* Goroutines that can run do run. What a goroutine waits for from outside
\* (a connection, a byte, a call) is not forced to happen.
AcceptProgress == AcceptWake \/ AcceptClosed \/ AcceptDone

FairSpec ==
  /\ Spec
  /\ WF_vars(ServerStep)
  /\ WF_vars(AcceptProgress)
  /\ \A c \in Conns : WF_vars(WorkerStep(c))
  /\ \A c \in Conns : WF_vars(ReaderStep(c))

\* ------------------------------------------- user code calling Client.Close
\* The caller of Close() either goes on or waits on the returned channel.
CloseReturns(c, pc) ==
  /\ Close(c)
  /\ pc \in {"idle", "wait"}
  /\ closePc' = [closePc EXCEPT ![c] = pc]

\* User code calls Close() on a client it was handed; chStop has room.
UserClose(c) ==
  /\ Running
  /\ closePc[c] = "idle"
  /\ id[c] # -1
  /\ closeCalls < MaxCloses
  /\ closeCalls' = closeCalls + 1
  /\ UNCHANGED startSeen
  /\ \E pc \in {"idle", "wait"} : CloseReturns(c, pc)
  /\ UNCHANGED <<id, wPc, rPc, rMsg, chDone, chReaderDone, connClosed, log,
                 forgets>>
  /\ UNCHANGED <<srvVars, accVars, netVars, bcast, guardVars, sendVars>>

\* User code calls Close() while chStop is full: the send blocks.
UserCloseBlocks(c) ==
  /\ Running
  /\ closePc[c] = "idle"
  /\ id[c] # -1
  /\ closeCalls < MaxCloses
  /\ chStop[c] = 1
  /\ closeCalls' = closeCalls + 1
  /\ UNCHANGED startSeen
  /\ closePc' = [closePc EXCEPT ![c] = "send"]
  /\ UNCHANGED <<srvVars, accVars, cliVars, netVars, bcast, guardVars, sendVars>>

\* The blocked send goes through.
UserCloseUnblocks(c) ==
  /\ Running
  /\ closePc[c] = "send"
  /\ \E pc \in {"idle", "wait"} : CloseReturns(c, pc)
  /\ UNCHANGED <<id, wPc, rPc, rMsg, chDone, chReaderDone, connClosed, log,
                 forgets>>
  /\ UNCHANGED <<closeCalls, startSeen>>
  /\ UNCHANGED <<srvVars, accVars, netVars, bcast, guardVars, sendVars>>

\* <-client.Close(): the caller receives from chDone.
UserCloseWaitDone(c) ==
  /\ Running
  /\ closePc[c] = "wait"
  /\ chDone[c] = 1
  /\ chDone' = [chDone EXCEPT ![c] = 0]
  /\ closePc' = [closePc EXCEPT ![c] = "released"]
  /\ UNCHANGED <<id, wPc, rPc, rMsg, chStop, chReaderDone, connClosed, log,
                 forgets>>
  /\ UNCHANGED <<closeCalls, startSeen>>
  /\ UNCHANGED <<srvVars, accVars, netVars, bcast, guardVars, sendVars>>

\* for _, e := range o.clients { <-e.Close() }: the loop calls Close on a
\* client whose chStop is full, and blocks in the send.
RangeCloseBlocks(c) ==
  /\ srvPc = "range"
  /\ c \in LoopRest
  /\ chStop[c] = 1
  /\ srvCur' = c
  /\ srvPc' = "closeSend"
  /\ UNCHANGED <<listener, clients, nextClientID, chStarted, chKill,
                 chStopped, stopCalls, closedBySrv, accDoneSeen>>
  /\ UNCHANGED <<accVars, cliVars, netVars, bcast, apiVars>>

\* The blocked send of the shutdown loop goes through.
RangeCloseUnblocks ==
  /\ srvPc = "closeSend"
  /\ Close(srvCur)
  /\ closedBySrv' = closedBySrv \cup {srvCur}
  /\ srvPc' = "waitClient"
  /\ UNCHANGED <<listener, clients, nextClientID, chStarted, chKill,
                 chStopped, srvCur, stopCalls, accDoneSeen>>
  /\ UNCHANGED <<id, wPc, rPc, rMsg, chDone, chReaderDone, connClosed, log,
                 forgets>>
  /\ UNCHANGED <<accVars, netVars, bcast, apiVars>>

\* The caller of Start() receives from the channel Start returned.
StartWaitStarted ==
  /\ Running
  /\ srvPc # "none"
  /\ chStarted = 1
  /\ chStarted' = 0
  /\ startSeen' = startSeen + 1
  /\ UNCHANGED <<listener, clients, nextClientID, chKill, chStopped, srvPc,
                 srvCur, stopCalls, closedBySrv, accDoneSeen>>
  /\ UNCHANGED <<closePc, closeCalls>>
  /\ UNCHANGED <<accVars, cliVars, netVars, bcast, guardVars, sendVars>>

UserStep(c) ==
  \/ UserClose(c)
  \/ UserCloseBlocks(c)
  \/ UserCloseUnblocks(c)
  \/ UserCloseWaitDone(c)

\* The server with user code that closes connections; the remote clients
\* connect and hang up, and send no message.
CloseNext ==
  \/ Start
  \/ Stop
  \/ ServerStep
  \/ AcceptStep
  \/ \E c \in Conns : WorkerOnNewClient(c)
  \/ \E c \in Conns : WorkerSpawnReader(c)
  \/ \E c \in Conns : WorkerRecvClosed(c)
  \/ \E c \in Conns : WorkerRecvStop(c)
  \/ \E c \in Conns : WorkerForget(c)
  \/ \E c \in Conns : WorkerForgetRace(c)
  \/ \E c \in Conns : WorkerConnClose(c)
  \/ \E c \in Conns : WorkerWaitReader(c)
  \/ \E c \in Conns : WorkerDone(c)
  \/ \E c \in Conns : ReaderFail(c)
  \/ \E c \in Conns : ClientClose(c)
  \/ \E c \in Conns : ClientReset(c)
  \/ \E c \in Conns : UserStep(c)
  \/ StartWaitStarted
  \/ \E c \in Conns : RangeCloseBlocks(c)
  \/ RangeCloseUnblocks

CloseSpec == Init /\ [][CloseNext]_vars

\* ------------------------------------------- Start() on a running server
\* Start() has no check that the server runs already and takes no lock.
\* Called on a started server it re-makes the table and the three channels,
\* one assignment after the other, then resolves and binds while the other
\* goroutines run on. A goroutine that holds the old map or an old channel
\* (a range loop that has begun, a select that is parked) keeps it.
\* The maps the shutdown loop can be ranging over once o.clients is
\* replaced: the old one when the loop has begun, the new one when it has
\* not; at the loop's head, before its first entry, either.
LoopAfterMake ==
  LET kept == [old |-> TRUE, tab |-> clients, skip |-> {}]
  IN CASE srvPc \in {"waitClient", "closeSend"} -> {kept}
       [] srvPc = "range" /\ closedBySrv # {} -> {kept}
       [] srvPc = "range" /\ closedBySrv = {} -> {kept, SameMap}
       [] OTHER -> {SameMap}

\* o.clients = make(map[int]*tcp.Client)
StartRunningClients ==
  /\ Running
  /\ srvPc # "none"
  /\ rsPc = "idle"
  /\ clients' = << >>
  /\ loop' \in LoopAfterMake
  /\ rsPc' = "chStarted"
  /\ UNCHANGED <<listener, nextClientID, chStarted, chKill, chStopped, srvPc,
                 srvCur, stopCalls, closedBySrv, accDoneSeen>>
  /\ UNCHANGED <<started, mu, stopPc, stopCh, chRetired, kills, chGen,
                 startErrs, lateDone, sendCh, field, g2, selKill, oldCh>>
  /\ UNCHANGED <<accVars, cliVars, netVars, bcast, closeVars, sendVars>>

\* The channel the select of the listen goroutine waits on once o.chKill
\* is replaced: a select that is parked keeps the old channel, one that is
\* yet to be evaluated reads the field.
SelectAfterMake == IF srvPc = "select" THEN {"old", "field"} ELSE {"field"}

\* o.chStarted, o.chKill, o.chStopped = make(chan bool, 1), in this order.
\* What a replaced channel holds stays in that channel.
StartRunningChannels ==
  /\ Running
  /\ rsPc \in {"chStarted", "chKill", "chStopped"}
  /\ chStarted' = IF rsPc = "chStarted" THEN 0 ELSE chStarted
  /\ chKill' = IF rsPc = "chKill" THEN 0 ELSE chKill
  /\ chStopped' = IF rsPc = "chStopped" THEN 0 ELSE chStopped
  /\ oldCh' = CASE rsPc = "chStarted" -> [oldCh EXCEPT !.started = chStarted]
                [] rsPc = "chKill" -> [oldCh EXCEPT !.kill = chKill]
                [] rsPc = "chStopped" -> [oldCh EXCEPT !.stopped = chStopped]
  /\ IF rsPc = "chKill" THEN selKill' \in SelectAfterMake
     ELSE UNCHANGED selKill
  /\ rsPc' = CASE rsPc = "chStarted" -> "chKill"
               [] rsPc = "chKill" -> "chStopped"
               [] rsPc = "chStopped" -> "bind"
  /\ UNCHANGED <<listener, clients, nextClientID, srvPc, srvCur, stopCalls,
                 closedBySrv, accDoneSeen>>
  /\ UNCHANGED <<started, mu, stopPc, stopCh, chRetired, kills, chGen,
                 startErrs, lateDone, sendCh, field, loop, g2>>
  /\ UNCHANGED <<accVars, cliVars, netVars, bcast, closeVars, sendVars>>

\* The accept goroutine at its Accept() call when o.listener is replaced:
\* it is about to make the call, or it is blocked in the call it has made
\* on the socket the field held before.
AcceptCallSplit == IF accPc = "accept" THEN {"accept", "stale"} ELSE {accPc}

\* The first socket still holds the address: the call of net.Listen
\* fails. Its results are not stored yet, and the first socket is not
\* closed.
StartRunningBindFails ==
  /\ Running
  /\ rsPc = "bind"
  /\ listener = "open"
  /\ rsPc' = "storeNil"
  /\ UNCHANGED <<started, mu, stopPc, stopCh, chRetired, kills, chGen,
                 startErrs, lateDone, sendCh, field, restartVars>>
  /\ UNCHANGED <<srvVars, accVars, cliVars, netVars, bcast, closeVars,
                 sendVars>>

\* "o.listener, listenerErr = net.Listen(...)" stores the results of the
\* failed call, nil and the error, and Start() returns the error. The
\* first listen goroutine may have closed the first socket meanwhile.
StartRunningStoreNil ==
  /\ Running
  /\ rsPc = "storeNil"
  /\ field' = "nil"
  /\ accPc' \in AcceptCallSplit
  /\ startErrs' = Append(startErrs, "bind")
  /\ rsPc' = "done"
  /\ UNCHANGED <<started, mu, stopPc, stopCh, chRetired, kills, chGen,
                 lateDone, sendCh, restartVars>>
  /\ UNCHANGED <<accConn, chListenerDone, nConns, permErr>>
  /\ UNCHANGED <<srvVars, cliVars, netVars, bcast, closeVars, sendVars>>

\* The address does not resolve: Start() returns the error and leaves
\* o.listener alone.
StartRunningResolveFails ==
  /\ Running
  /\ rsPc = "bind"
  /\ startErrs' = Append(startErrs, "resolve")
  /\ rsPc' = "done"
  /\ UNCHANGED <<started, mu, stopPc, stopCh, chRetired, kills, chGen,
                 lateDone, sendCh, field, restartVars>>
  /\ UNCHANGED <<srvVars, accVars, cliVars, netVars, bcast, closeVars,
                 sendVars>>

\* The first socket is closed (the first run is shutting down or is over):
\* the bind succeeds, o.listener holds a second socket and go o.listen()
\* spawns a second listen goroutine, next to the first one if that has not
\* returned yet.
StartRunningBindSecond ==
  /\ Running
  /\ rsPc = "bind"
  /\ listener = "closed"
  /\ field' = "second"
  /\ g2' = [NoListen EXCEPT !.pc = "listen", !.sock = "open"]
  /\ accPc' \in AcceptCallSplit
  /\ rsPc' = "done"
  /\ UNCHANGED <<started, mu, stopPc, stopCh, chRetired, kills, chGen,
                 startErrs, lateDone, sendCh, loop, selKill, oldCh>>
  /\ UNCHANGED <<accConn, chListenerDone, nConns, permErr>>
  /\ UNCHANGED <<srvVars, cliVars, netVars, bcast, closeVars, sendVars>>

AcceptOutcomes == {"conn", "temp", "perm", "closed"}

\* What a returning Accept() call does to the accept goroutine: send the
\* connection, sleep, or break.
AcceptReturns(r) ==
  /\ r = "conn" => nConns < MaxConns
  /\ nConns' = IF r = "conn" THEN nConns + 1 ELSE nConns
  /\ accConn' = IF r = "conn" THEN nConns + 1 ELSE accConn
  /\ permErr' = IF r = "perm" THEN TRUE ELSE permErr
  /\ accPc' = CASE r = "conn" -> "send"
                [] r = "temp" -> "sleep"
                [] OTHER -> "closed"
  /\ UNCHANGED chListenerDone
  /\ UNCHANGED <<srvVars, cliVars, netVars, bcast, apiVars>>

\* The Accept() call that was blocked on the first socket when o.listener
\* was replaced returns: with a connection or an error while that socket
\* is open, with the "closed" error once it is closed.
AcceptStale(r) ==
  /\ Running
  /\ accPc = "stale"
  /\ IF listener = "closed" THEN r = "closed" ELSE r # "closed"
  /\ AcceptReturns(r)

\* Accept() of the first run's accept goroutine on the second socket.
AcceptSecond(r) ==
  /\ Running
  /\ accPc = "accept"
  /\ field = "second"
  /\ IF g2.sock = "closed" THEN r = "closed" ELSE r # "closed"
  /\ AcceptReturns(r)

\* o.listener.Accept() in the accept goroutine or o.listener.Close() after
\* the select loop, on the nil listener: nil dereference, the process ends.
NilListenerPanic ==
  /\ Running
  /\ field = "nil"
  /\ accPc = "accept" \/ srvPc = "closing"
  /\ srvPc' = "fatal"
  /\ UNCHANGED <<listener, clients, nextClientID, chStarted, chKill,
                 chStopped, srvCur, stopCalls, closedBySrv, accDoneSeen>>
  /\ UNCHANGED <<accVars, cliVars, netVars, bcast, apiVars>>

\* ----------------------------------------- the second listen goroutine
\* Server.listen as the goroutine of the second Start() runs it: its own
\* accept goroutine, chListener and chListenerDone, and the fields of the
\* one Server value (o.listener, o.clients, o.nextClientID, the channels).
\* "go func() {...}()": the second accept goroutine is spawned and runs
\* from here on.
ListenBeginSecond ==
  /\ Running
  /\ g2.pc = "listen"
  /\ g2' = [g2 EXCEPT !.pc = "started", !.acc = "accept"]
  /\ UNCHANGED <<srvVars, accVars, cliVars, netVars, bcast, apiButG2>>

\* o.chStarted <- true: the send blocks while the channel holds the value
\* of the first listen goroutine.
ListenStartedSecond ==
  /\ Running
  /\ g2.pc = "started"
  /\ chStarted = 0
  /\ chStarted' = 1
  /\ g2' = [g2 EXCEPT !.pc = "select"]
  /\ UNCHANGED <<listener, clients, nextClientID, chKill, chStopped, srvPc,
                 srvCur, stopCalls, closedBySrv, accDoneSeen>>
  /\ UNCHANGED <<accVars, cliVars, netVars, bcast, apiButG2>>

\* o.listener.Accept() of the second accept goroutine returns.
AcceptReturnsSecond(r) ==
  /\ Running
  /\ g2.acc = "accept"
  /\ IF g2.sock = "closed" THEN r = "closed" ELSE r # "closed"
  /\ r = "conn" => nConns < MaxConns
  /\ nConns' = IF r = "conn" THEN nConns + 1 ELSE nConns
  /\ g2' = [g2 EXCEPT !.conn = IF r = "conn" THEN nConns + 1 ELSE @,
                      !.acc = CASE r = "conn" -> "send"
                                [] r = "temp" -> "sleep"
                                [] OTHER -> "closed"]
  /\ UNCHANGED <<accPc, accConn, chListenerDone, permErr>>
  /\ UNCHANGED <<srvVars, cliVars, netVars, bcast, apiButG2>>

\* The sleep after a temporary error is over: back to Accept.
AcceptWakeSecond ==
  /\ Running
  /\ g2.acc = "sleep"
  /\ g2' = [g2 EXCEPT !.acc = "accept"]
  /\ UNCHANGED <<srvVars, accVars, cliVars, netVars, bcast, apiButG2>>

\* close(chListener), chListenerDone <- true.
AcceptDoneSecond ==
  /\ Running
  /\ g2.acc = "closed"
  /\ g2' = [g2 EXCEPT !.acc = "done", !.done = 1]
  /\ UNCHANGED <<srvVars, accVars, cliVars, netVars, bcast, apiButG2>>

\* select, case conn := <-chListener (ok).
ListenRecvConnSecond ==
  /\ Running
  /\ g2.pc = "select"
  /\ g2.acc = "send"
  /\ g2' = [g2 EXCEPT !.pc = "handle", !.cur = g2.conn, !.acc = "accept",
                      !.conn = NoConn]
  /\ UNCHANGED <<srvVars, accVars, cliVars, netVars, bcast, apiButG2>>

\* handleNewClient: the identifier and CreateClient.
handleNewClientIDSecond ==
  /\ Running
  /\ g2.pc = "handle"
  /\ mu = 0
  /\ LET g == getAndIncrementNextClientID(nextClientID)
         o == CreateClient(g.id)
     IN /\ nextClientID' = g.next
        /\ id' = [id EXCEPT ![g2.cur] = o.id]
        /\ chStop' = [chStop EXCEPT ![g2.cur] = o.chStop]
        /\ chDone' = [chDone EXCEPT ![g2.cur] = o.chDone]
  /\ g2' = [g2 EXCEPT !.pc = "add"]
  /\ UNCHANGED <<listener, clients, chStarted, chKill, chStopped, srvPc,
                 srvCur, stopCalls, closedBySrv, accDoneSeen>>
  /\ UNCHANGED <<wPc, rPc, rMsg, chReaderDone, connClosed, log, forgets>>
  /\ UNCHANGED <<accVars, netVars, bcast, apiButG2>>

\* The shutdown loop of the first listen goroutine when the entry of c is
\* created during its iteration over the map the field holds: the loop
\* may produce the entry or skip it.
SkipFirst(c) ==
  IF srvPc \in {"range", "waitClient", "closeSend"} /\ ~loop.old
  THEN {loop, [loop EXCEPT !.skip = @ \cup {c}]}
  ELSE {loop}

\* handleNewClient: o.addClient(client, id).
handleNewClientAddSecond ==
  /\ Running
  /\ g2.pc = "add"
  /\ mu = 0
  /\ clients' = addClient(clients, g2.cur, id[g2.cur])
  /\ g2' = [g2 EXCEPT !.pc = "spawn"]
  /\ loop' \in SkipFirst(g2.cur)
  /\ UNCHANGED <<listener, nextClientID, chStarted, chKill, chStopped, srvPc,
                 srvCur, stopCalls, closedBySrv, accDoneSeen>>
  /\ UNCHANGED <<closePc, closeCalls, startSeen, started, mu, stopPc, stopCh,
                 chRetired, kills, chGen, startErrs, lateDone, sendCh, field,
                 rsPc, bc, sends, selKill, oldCh>>
  /\ UNCHANGED <<accVars, cliVars, netVars, bcast>>

\* o.addClient while the shutdown loop of the first listen goroutine
\* advances over the same map: the runtime may end the process.
handleNewClientAddRaceSecond ==
  /\ Running
  /\ g2.pc = "add"
  /\ mu = 0
  /\ srvPc = "range"
  /\ ~loop.old
  /\ clients' = addClient(clients, g2.cur, id[g2.cur])
  /\ g2' = [g2 EXCEPT !.pc = "spawn"]
  /\ srvPc' = "fatal"
  /\ UNCHANGED <<listener, nextClientID, chStarted, chKill, chStopped,
                 srvCur, stopCalls, closedBySrv, accDoneSeen>>
  /\ UNCHANGED <<accVars, cliVars, netVars, bcast, apiButG2>>

\* handleNewClient: go client.listen(), and back to the select.
handleNewClientGoSecond ==
  /\ Running
  /\ g2.pc = "spawn"
  /\ wPc' = [wPc EXCEPT ![g2.cur] = "start"]
  /\ g2' = [g2 EXCEPT !.pc = "select", !.cur = NoConn]
  /\ UNCHANGED <<id, rPc, rMsg, chStop, chDone, chReaderDone, connClosed, log,
                 forgets>>
  /\ UNCHANGED <<srvVars, accVars, netVars, bcast, apiButG2>>

\* select, case <-chListener (closed).
ListenRecvClosedSecond ==
  /\ Running
  /\ g2.pc = "select"
  /\ g2.acc \in {"closed", "done"}
  /\ g2' = [g2 EXCEPT !.pc = "closing"]
  /\ UNCHANGED <<srvVars, accVars, cliVars, netVars, bcast, apiButG2>>

\* select, case <-o.chKill: the channel the second Start() has made.
ListenRecvKillSecond ==
  /\ Running
  /\ g2.pc = "select"
  /\ chKill = 1
  /\ chKill' = 0
  /\ g2' = [g2 EXCEPT !.pc = "closing"]
  /\ UNCHANGED <<listener, clients, nextClientID, chStarted, chStopped, srvPc,
                 srvCur, stopCalls, closedBySrv, accDoneSeen>>
  /\ UNCHANGED <<accVars, cliVars, netVars, bcast, apiButG2>>

\* o.listener.Close(): the second socket.
ListenCloseSecond ==
  /\ Running
  /\ g2.pc = "closing"
  /\ g2' = [g2 EXCEPT !.pc = "waitListener", !.sock = "closed"]
  /\ UNCHANGED <<srvVars, accVars, cliVars, netVars, bcast, apiButG2>>

\* <-chListenerDone
ListenWaitListenerSecond ==
  /\ Running
  /\ g2.pc = "waitListener"
  /\ g2.done = 1
  /\ g2' = [g2 EXCEPT !.pc = "range", !.done = 0]
  /\ UNCHANGED <<srvVars, accVars, cliVars, netVars, bcast, apiButG2>>

\* for _, e := range o.clients { <-e.Close() }: the call of Close.
RangeCloseSecond(c) ==
  /\ Running
  /\ g2.pc = "range"
  /\ c \in RangeClients(clients)
  /\ Close(c)
  /\ g2' = [g2 EXCEPT !.pc = "waitClient", !.cur = c,
                      !.closed = @ \cup {c}]
  /\ UNCHANGED <<id, wPc, rPc, rMsg, chDone, chReaderDone, connClosed, log,
                 forgets>>
  /\ UNCHANGED <<srvVars, accVars, netVars, bcast, apiButG2>>

\* for _, e := range o.clients { <-e.Close() }: the receive from chDone.
RangeWaitSecond ==
  /\ Running
  /\ g2.pc = "waitClient"
  /\ chDone[g2.cur] = 1
  /\ chDone' = [chDone EXCEPT ![g2.cur] = 0]
  /\ g2' = [g2 EXCEPT !.pc = "range", !.cur = NoConn]
  /\ UNCHANGED <<id, wPc, rPc, rMsg, chStop, chReaderDone, connClosed, log,
                 forgets>>
  /\ UNCHANGED <<srvVars, accVars, netVars, bcast, apiButG2>>

\* The range loop is over: o.chStopped <- true (the send blocks while the
\* channel holds the value of the first listen goroutine).
ListenStoppedSecond ==
  /\ Running
  /\ g2.pc = "range"
  /\ RangeClients(clients) = {}
  /\ chStopped = 0
  /\ chStopped' = 1
  /\ g2' = [g2 EXCEPT !.pc = "done"]
  /\ UNCHANGED <<listener, clients, nextClientID, chStarted, chKill, srvPc,
                 srvCur, stopCalls, closedBySrv, accDoneSeen>>
  /\ UNCHANGED <<accVars, cliVars, netVars, bcast, apiButG2>>

\* The server and its connections with a second Start() call, without
\* message traffic. What the accept goroutine and the code after the
\* select loop do with o.listener depends on what the field holds.
RestartNext ==
  \/ Start
  \/ Stop
  \/ ListenBegin
  \/ ListenRecvConn
  \/ handleNewClientID
  \/ handleNewClientAdd
  \/ handleNewClientGo
  \/ ListenRecvClosed
  \/ ListenRecvKill
  \/ field = "first" /\ ListenClose
  \/ ListenWaitListener
  \/ \E c \in Conns : RangeClose(c)
  \/ RangeWait
  \/ ListenStopped
  \/ field = "first" /\ AcceptOk
  \/ field = "first" /\ AcceptTempErr
  \/ AcceptWake
  \/ field = "first" /\ AcceptClosed
  \/ field = "first" /\ AcceptPermErr
  \/ AcceptDone
  \/ \E r \in AcceptOutcomes : AcceptStale(r)
  \/ \E r \in AcceptOutcomes : AcceptSecond(r)
  \/ \E c \in Conns : WorkerOnNewClient(c)
  \/ \E c \in Conns : WorkerSpawnReader(c)
  \/ \E c \in Conns : WorkerRecvClosed(c)
  \/ \E c \in Conns : WorkerRecvStop(c)
  \/ \E c \in Conns : WorkerForget(c)
  \/ \E c \in Conns : WorkerForgetRace(c)
  \/ \E c \in Conns : WorkerConnClose(c)
  \/ \E c \in Conns : WorkerWaitReader(c)
  \/ \E c \in Conns : WorkerDone(c)
  \/ \E c \in Conns : ReaderFail(c)
  \/ \E c \in Conns : ClientClose(c)
  \/ \E c \in Conns : ClientReset(c)
  \/ StartRunningClients
  \/ StartRunningChannels
  \/ StartRunningResolveFails
  \/ StartRunningBindFails
  \/ StartRunningStoreNil
  \/ StartRunningBindSecond
  \/ NilListenerPanic
  \/ ListenBeginSecond
  \/ ListenStartedSecond
  \/ \E r \in AcceptOutcomes : AcceptReturnsSecond(r)
  \/ AcceptWakeSecond
  \/ AcceptDoneSecond
  \/ ListenRecvConnSecond
  \/ handleNewClientIDSecond
  \/ handleNewClientAddSecond
  \/ handleNewClientGoSecond
  \/ ListenRecvClosedSecond
  \/ ListenRecvKillSecond
  \/ ListenCloseSecond
  \/ ListenWaitListenerSecond
  \/ \E c \in Conns : RangeCloseSecond(c)
  \/ RangeWaitSecond
  \/ ListenStoppedSecond
  \/ handleNewClientAddRaceSecond

RestartSpec == Init /\ [][RestartNext]_vars

\* ------------------------------------- the guarded server (Server.started)
\* Server.Start, Server.Stop and Server.listen of package tcpserver: a
\* running sentinel guards Start and Stop, and both hold the mutex for the
\* whole call. chKill and chStopped stand for its stop-request and
\* completion channels (o.chStop, o.chDone).

\* Mutant: Start without the sentinel check.
StartNeverRefused == FALSE

\* Start: "if o.started".
StartRefused == started

\* Mutant: Stop without the sentinel check.
StopNeverRefused == FALSE

\* Stop: "if !o.started".
StopRefused == ~started

\* Start on a started server: the error is returned at once.
StartAgain ==
  /\ Running
  /\ mu = 0
  /\ StartRefused
  /\ Len(startErrs) < MaxStartErrs
  /\ startErrs' = Append(startErrs, "running")
  /\ UNCHANGED <<started, mu, stopPc, stopCh, chRetired, kills, chGen,
                 lateDone, sendCh, field, rsPc, restartVars>>
  /\ UNCHANGED <<srvVars, accVars, cliVars, netVars, bcast, closeVars, sendVars>>

\* Start, "(re)-initialize necessary members": a new table and new
\* channels. A replaced completion channel keeps the value it holds.
StartInit ==
  /\ clients' = << >>
  /\ chKill' = 0
  /\ chStopped' = 0
  /\ chGen' = chGen + 1
  /\ chRetired' = IF chStopped = 1 THEN chRetired \cup {chGen} ELSE chRetired

\* Start fails after the re-initialisation: the address does not resolve
\* (o.listener is left alone) or does not bind (o.listener becomes nil).
StartBindFails ==
  /\ Running
  /\ mu = 0
  /\ ~StartRefused
  /\ Len(startErrs) < MaxStartErrs
  /\ StartInit
  /\ \E l \in {listener, "nil"} : listener' = l
  /\ startErrs' = Append(startErrs, "bind")
  /\ UNCHANGED <<started, mu, stopPc, stopCh, kills, lateDone, sendCh, field, rsPc, restartVars>>
  /\ UNCHANGED <<nextClientID, chStarted, srvPc, srvCur, stopCalls,
                 closedBySrv, accDoneSeen>>
  /\ UNCHANGED <<accVars, cliVars, netVars, bcast, closeVars, sendVars>>

\* Start succeeds: re-initialise, bind, go o.listen(), o.started = true.
StartGuarded ==
  /\ Running
  /\ mu = 0
  /\ ~StartRefused
  /\ srvPc = "none"
  /\ StartInit
  /\ listener' = "open"
  /\ srvPc' = "listen"
  /\ started' = TRUE
  /\ UNCHANGED <<mu, stopPc, stopCh, kills, startErrs, lateDone, sendCh, field, rsPc, restartVars>>
  /\ UNCHANGED <<nextClientID, chStarted, srvCur, stopCalls, closedBySrv,
                 accDoneSeen>>
  /\ UNCHANGED <<accVars, cliVars, netVars, bcast, closeVars, sendVars>>

\* Start on a server whose earlier run has reset the sentinel: the same
\* call, and a new listen goroutine with its own chListener and
\* chListenerDone. The listen goroutine of the earlier run may still have
\* its send on o.chDone before it, or be parked in it on the channel it
\* has evaluated.
StartGuardedAgain ==
  /\ Running
  /\ mu = 0
  /\ ~StartRefused
  /\ srvPc \in {"sendDone", "sending", "done"}
  /\ chGen < MaxRuns
  /\ StartInit
  /\ listener' = "open"
  /\ srvPc' = "listen"
  /\ started' = TRUE
  /\ accDoneSeen' = FALSE
  /\ permErr' = FALSE
  /\ lateDone' = IF srvPc = "sendDone" THEN lateDone + 1 ELSE lateDone
  /\ sendCh' = IF srvPc = "sending" THEN [cur |-> 0, late |-> sendCh.cur]
               ELSE sendCh
  /\ UNCHANGED <<mu, stopPc, stopCh, kills, startErrs, field, rsPc, restartVars>>
  /\ UNCHANGED <<nextClientID, chStarted, srvCur, stopCalls, closedBySrv>>
  /\ UNCHANGED <<accPc, accConn, chListenerDone, nConns>>
  /\ UNCHANGED <<cliVars, netVars, bcast, closeVars, sendVars>>

\* Stop on a server that is not started: the error is returned at once.
StopNotStarted(k) ==
  /\ Running
  /\ stopPc[k] = "idle"
  /\ mu = 0
  /\ StopRefused
  /\ stopPc' = [stopPc EXCEPT ![k] = "error"]
  /\ UNCHANGED <<started, mu, stopCh, chRetired, kills, chGen, startErrs,
                 lateDone, sendCh, field, rsPc, restartVars>>
  /\ UNCHANGED <<srvVars, accVars, cliVars, netVars, bcast, closeVars, sendVars>>

\* o.chStop <- true, and the completion channel is returned.
StopSend(k) ==
  /\ chKill = 0
  /\ chKill' = 1
  /\ kills' = kills + 1
  /\ stopCh' = [stopCh EXCEPT ![k] = chGen]
  /\ stopPc' = [stopPc EXCEPT ![k] = "wait"]

\* Stop on a started server whose stop-request channel has room.
StopGuarded(k) ==
  /\ Running
  /\ stopPc[k] = "idle"
  /\ mu = 0
  /\ ~StopRefused
  /\ StopSend(k)
  /\ UNCHANGED <<started, mu, chRetired, chGen, startErrs, lateDone, sendCh, field,
                 rsPc, restartVars>>
  /\ UNCHANGED <<listener, clients, nextClientID, chStarted, chStopped, srvPc,
                 srvCur, stopCalls, closedBySrv, accDoneSeen>>
  /\ UNCHANGED <<accVars, cliVars, netVars, bcast, closeVars, sendVars>>

\* Stop on a started server whose stop-request channel is full: the send
\* blocks, and the caller keeps the mutex.
StopBlocks(k) ==
  /\ Running
  /\ stopPc[k] = "idle"
  /\ mu = 0
  /\ ~StopRefused
  /\ chKill = 1
  /\ mu' = k
  /\ stopPc' = [stopPc EXCEPT ![k] = "send"]
  /\ UNCHANGED <<started, stopCh, chRetired, kills, chGen, startErrs,
                 lateDone, sendCh, field, rsPc, restartVars>>
  /\ UNCHANGED <<srvVars, accVars, cliVars, netVars, bcast, closeVars, sendVars>>

\* The blocked send goes through; the deferred Unlock runs.
StopUnblocks(k) ==
  /\ Running
  /\ stopPc[k] = "send"
  /\ StopSend(k)
  /\ mu' = 0
  /\ UNCHANGED <<started, chRetired, chGen, startErrs, lateDone, sendCh, field,
                 rsPc, restartVars>>
  /\ UNCHANGED <<listener, clients, nextClientID, chStarted, chStopped, srvPc,
                 srvCur, stopCalls, closedBySrv, accDoneSeen>>
  /\ UNCHANGED <<accVars, cliVars, netVars, bcast, closeVars, sendVars>>

\* The caller of Stop receives from the channel it was handed.
StopWaitDone(k) ==
  /\ Running
  /\ stopPc[k] = "wait"
  /\ \/ /\ stopCh[k] = chGen
        /\ chStopped = 1
        /\ chStopped' = 0
        /\ UNCHANGED chRetired
     \/ /\ stopCh[k] \in chRetired
        /\ chRetired' = chRetired \ {stopCh[k]}
        /\ UNCHANGED chStopped
  /\ stopPc' = [stopPc EXCEPT ![k] = "released"]
  /\ UNCHANGED <<started, mu, stopCh, kills, chGen, startErrs, lateDone, sendCh,
                 field, rsPc, restartVars>>
  /\ UNCHANGED <<listener, clients, nextClientID, chStarted, chKill, srvPc,
                 srvCur, stopCalls, closedBySrv, accDoneSeen>>
  /\ UNCHANGED <<accVars, cliVars, netVars, bcast, closeVars, sendVars>>

\* listen: spawn the accept goroutine, enter the select loop.
ServeBegin ==
  /\ srvPc = "listen"
  /\ accPc' = "accept"
  /\ srvPc' = "select"
  /\ UNCHANGED <<listener, clients, nextClientID, chStarted, chKill,
                 chStopped, srvCur, stopCalls, closedBySrv, accDoneSeen>>
  /\ UNCHANGED <<accConn, chListenerDone, nConns, permErr>>
  /\ UNCHANGED <<cliVars, netVars, bcast, apiVars>>

\* Mutant: the sentinel is not reset at the end of the shutdown.
keepRunning ==
  /\ srvPc = "range"
  /\ RangeClients(clients) = {}
  /\ mu = 0
  /\ srvPc' = "sendDone"
  /\ UNCHANGED <<started, mu, stopPc, stopCh, chRetired, kills, chGen,
                 startErrs, lateDone, sendCh, field, rsPc, restartVars>>
  /\ UNCHANGED <<listener, clients, nextClientID, chStarted, chKill,
                 chStopped, srvCur, stopCalls, closedBySrv, accDoneSeen>>
  /\ UNCHANGED <<accVars, cliVars, netVars, bcast, closeVars, sendVars>>

\* The range loop is over: o.unsetRunning(), which takes the mutex.
unsetRunning ==
  /\ srvPc = "range"
  /\ LoopRest = {}
  /\ mu = 0
  /\ started' = FALSE
  /\ srvPc' = "sendDone"
  /\ UNCHANGED <<mu, stopPc, stopCh, chRetired, kills, chGen, startErrs,
                 lateDone, sendCh, field, rsPc, restartVars>>
  /\ UNCHANGED <<listener, clients, nextClientID, chStarted, chKill,
                 chStopped, srvCur, stopCalls, closedBySrv, accDoneSeen>>
  /\ UNCHANGED <<accVars, cliVars, netVars, bcast, closeVars, sendVars>>

\* The completion channel of generation g has room for a value: the one
\* o.chDone holds now, or one that Start() has replaced.
ChanHasRoom(g) == IF g = chGen THEN chStopped = 0 ELSE g \notin chRetired

\* A value is sent on the completion channel of generation g.
ChanSend(g) ==
  IF g = chGen
  THEN chStopped' = 1 /\ UNCHANGED chRetired
  ELSE chRetired' = chRetired \cup {g} /\ UNCHANGED chStopped

\* o.chDone <- true: the channel operand is evaluated, the field is read.
ServeDoneChan ==
  /\ srvPc = "sendDone"
  /\ srvPc' = "sending"
  /\ sendCh' = [sendCh EXCEPT !.cur = chGen]
  /\ UNCHANGED <<started, mu, stopPc, stopCh, chRetired, kills, chGen,
                 startErrs, lateDone, field, rsPc, restartVars>>
  /\ UNCHANGED <<listener, clients, nextClientID, chStarted, chKill,
                 chStopped, srvCur, stopCalls, closedBySrv, accDoneSeen>>
  /\ UNCHANGED <<accVars, cliVars, netVars, bcast, closeVars, sendVars>>

\* o.chDone <- true: the send, on the channel that was evaluated. While
\* that channel is full the goroutine stays parked on it, whatever
\* o.chDone holds by then.
ServeDone ==
  /\ srvPc = "sending"
  /\ ChanHasRoom(sendCh.cur)
  /\ ChanSend(sendCh.cur)
  /\ sendCh' = [sendCh EXCEPT !.cur = 0]
  /\ srvPc' = "done"
  /\ UNCHANGED <<started, mu, stopPc, stopCh, kills, chGen, startErrs,
                 lateDone, field, rsPc, restartVars>>
  /\ UNCHANGED <<listener, clients, nextClientID, chStarted, chKill, srvCur,
                 stopCalls, closedBySrv, accDoneSeen>>
  /\ UNCHANGED <<accVars, cliVars, netVars, bcast, closeVars, sendVars>>

\* The listen goroutine of an earlier run evaluates o.chDone: the channel
\* a later Start() has made.
ServeDoneChanLate ==
  /\ Running
  /\ lateDone > 0
  /\ sendCh.late = 0
  /\ lateDone' = lateDone - 1
  /\ sendCh' = [sendCh EXCEPT !.late = chGen]
  /\ UNCHANGED <<started, mu, stopPc, stopCh, chRetired, kills, chGen,
                 startErrs, field, rsPc, restartVars>>
  /\ UNCHANGED <<srvVars, accVars, cliVars, netVars, bcast, closeVars,
                 sendVars>>

\* The listen goroutine of an earlier run sends on the channel it has
\* evaluated.
ServeDoneLate ==
  /\ Running
  /\ sendCh.late # 0
  /\ ChanHasRoom(sendCh.late)
  /\ ChanSend(sendCh.late)
  /\ sendCh' = [sendCh EXCEPT !.late = 0]
  /\ UNCHANGED <<started, mu, stopPc, stopCh, kills, chGen, startErrs,
                 lateDone, field, rsPc, restartVars>>
  /\ UNCHANGED <<listener, clients, nextClientID, chStarted, chKill, srvPc,
                 srvCur, stopCalls, closedBySrv, accDoneSeen>>
  /\ UNCHANGED <<accVars, cliVars, netVars, bcast, closeVars, sendVars>>

StopStep(k) ==
  \/ StopNotStarted(k)
  \/ StopGuarded(k)
  \/ StopBlocks(k)
  \/ StopUnblocks(k)
  \/ StopWaitDone(k)

ServeStep ==
  \/ ServeBegin
  \/ ListenRecvConn
  \/ handleNewClientID
  \/ handleNewClientAdd
  \/ handleNewClientGo
  \/ ListenRecvClosed
  \/ ListenRecvKill
  \/ ListenClose
  \/ ListenWaitListener
  \/ \E c \in Conns : RangeClose(c)
  \/ RangeWait
  \/ unsetRunning
  \/ ServeDoneChan
  \/ ServeDone

\* Start/Stop cycles of one Server value with connections that come and
\* go; every Start() and Stop() call succeeds, fails or is refused by the
\* sentinel. The remote clients send no data here.
GuardedNext ==
  \/ StartGuarded
  \/ StartAgain
  \/ StartBindFails
  \/ StartGuardedAgain
  \/ \E k \in Stoppers : StopStep(k)
  \/ ServeStep
  \/ ServeDoneChanLate
  \/ ServeDoneLate
  \/ AcceptOk
  \/ AcceptTempErr
  \/ AcceptWake
  \/ AcceptClosed
  \/ AcceptPermErr
  \/ AcceptDone
  \/ \E c \in Conns : WorkerOnNewClient(c)
  \/ \E c \in Conns : WorkerSpawnReader(c)
  \/ \E c \in Conns : WorkerRecvClosed(c)
  \/ \E c \in Conns : WorkerRecvStop(c)
  \/ \E c \in Conns : WorkerForget(c)
  \/ \E c \in Conns : WorkerForgetRace(c)
  \/ \E c \in Conns : WorkerConnClose(c)
  \/ \E c \in Conns : WorkerWaitReader(c)
  \/ \E c \in Conns : WorkerDone(c)
  \/ \E c \in Conns : ReaderFail(c)
  \/ \E c \in Conns : ClientClose(c)
  \/ \E c \in Conns : ClientReset(c)

GuardedSpec == Init /\ [][GuardedNext]_vars

\* A caller of Stop() has received the completion of the current run.
StopObserved ==
  \E k \in Stoppers : stopPc[k] = "released" /\ stopCh[k] = chGen

\* ------------------------------------------------------------ properties
PastLoop == {"onDisconnect", "connClose", "waitReader", "sendDone", "done"}
Deregistered == {"connClose", "waitReader", "sendDone", "done"}

StopDelivered == chStopped = 1

\* The texts handed to onMessage for connection c, in order.
RECURSIVE Texts(_)
Texts(l) ==
  IF l = <<>> THEN <<>>
  ELSE IF Head(l).ev = "message" THEN <<Head(l).msg>> \o Texts(Tail(l))
       ELSE Texts(Tail(l))

\* The delimiter-terminated messages in a byte stream, each with its
\* delimiter; what follows the last delimiter is no message.
RECURSIVE Frames(_)
Frames(buf) ==
  IF IndexByte(buf, Delim) = 0 THEN <<>>
  ELSE <<SubSeq(buf, 1, IndexByte(buf, Delim))>>
       \o Frames(SubSeq(buf, IndexByte(buf, Delim) + 1, Len(buf)))

Strip(m) == SubSeq(m, 1, Len(m) - 1)

Count(l, e) == Cardinality({i \in 1..Len(l) : l[i].ev = e})

\* C2: whenever the stop-completion signal has been delivered, the client
\* table is empty and the listener is closed.
C2_StopLeavesNothing ==
  StopDelivered => (DOMAIN clients = {} /\ listener = "closed")

\* The stop was delivered after the shutdown loop closed a connection.
C2_Witness == StopDelivered /\ closedBySrv # {}

\* C3: the shutdown loop calls Close() on a connection only after the
\* listener is closed, the accept goroutine has finished and its
\* completion signal has been received.
C3_TopDown ==
  closedBySrv # {} => (listener = "closed" /\ accPc = "done" /\ accDoneSeen)

\* The shutdown loop has called Close() on a connection.
C3_Witness == closedBySrv # {} /\ stopCalls > 0

\* C4 (as claimed): when the stop-completion signal of a shutdown that
\* Stop() requested has been delivered, every worker has finished.
C4_AllWorkersDone ==
  (StopDelivered /\ stopCalls > 0 /\ ~permErr)
    => \A c \in Conns : wPc[c] \in {"none", "done"}

\* C5: when the stop-completion signal has been delivered, no worker is in
\* a user callback and none has a callback still to invoke.
C5_NoCallbackAfterStop ==
  StopDelivered => \A c \in Conns : wPc[c] \in {"none"} \cup Deregistered

\* The stop was delivered although a worker that left on its own has not
\* finished yet.
C5_Witness ==
  /\ StopDelivered
  /\ \E c \in Conns : wPc[c] \in Deregistered \ {"done"}

\* C6: per connection the callbacks are onConnect once and first, then
\* onMessage any number of times, then onDisconnect once and last.
C6_CallbackOrder ==
  \A c \in Conns :
    /\ \A i \in 1..Len(log[c]) :
         /\ (log[c][i].ev = "connect") <=> (i = 1)
         /\ (log[c][i].ev = "disconnect") => (i = Len(log[c]))
    /\ wPc[c] \notin {"none", "start"} => Len(log[c]) >= 1
    /\ (wPc[c] \in PastLoop) <=>
         (Len(log[c]) >= 1 /\ log[c][Len(log[c])].ev = "disconnect")

\* A connection has seen onConnect, onMessage and onDisconnect.
C6_Witness ==
  \E c \in Conns :
    /\ Len(log[c]) = 3
    /\ log[c][2].ev = "message"
    /\ log[c][3].ev = "disconnect"

\* The messages the reader of c has taken from the connection: those the
\* client has sent without those still unread in the stream.
Taken(c) ==
  SubSeq(Frames(written[c]), 1,
         Len(Frames(written[c])) - Len(Frames(inbuf[c])))

\* C7 (as claimed, for the messages the reader has taken from a connection
\* whose client did not reset it, and with the text accepted with or
\* without its delimiter): when onDisconnect is invoked, onMessage has been
\* invoked exactly once for each of them, in the order sent.
C7_DeliveredBeforeDisconnect ==
  [][\A c \in Conns :
       (wPc[c] = "select" /\ wPc'[c] = "onDisconnect" /\ peer[c] # "reset")
         => /\ Len(Texts(log[c])) = Len(Taken(c))
            /\ \A i \in 1..Len(Taken(c)) :
                 Texts(log[c])[i] \in {Taken(c)[i], Strip(Taken(c)[i])}]_vars

\* C8: a worker invokes onDisconnect and removes its entry at most once,
\* and has done both exactly once when it is past that point.
C8_DisconnectOnce ==
  \A c \in Conns :
    /\ Count(log[c], "disconnect") <= 1
    /\ forgets[c] <= 1
    /\ wPc[c] \in Deregistered =>
         (Count(log[c], "disconnect") = 1 /\ forgets[c] = 1)

\* A worker whose connection was severed has terminated.
C8_Witness ==
  \E c \in Conns :
    peer[c] = "reset" /\ c \notin closedBySrv /\ wPc[c] = "done"

\* C9: identifiers are distinct and increase in the order of registration,
\* and a connection is in the table under its identifier from addClient
\* until its own worker has removed it.
C9_Identifiers ==
  /\ \A c, d \in Conns :
       (c < d /\ id[c] # -1 /\ id[d] # -1) => id[c] < id[d]
  /\ \A c \in Conns :
       (/\ id[c] # -1
        /\ ~(srvPc = "add" /\ srvCur = c)
        /\ wPc[c] \notin Deregistered) =>
         (id[c] \in DOMAIN clients /\ clients[id[c]] = c)
  /\ \A c \in Conns : id[c] # -1 => id[c] < nextClientID

\* Two connections are registered at the same time.
C9_Witness == Cardinality(DOMAIN clients) >= 2

\* C10: a SendBytesAll call makes a send to every connection that is in
\* the table from the beginning of the call to its end, each send either
\* delivers or fails, a failed send does not end the call, and no error is
\* returned.
C10_BroadcastAll ==
  /\ \A i \in 1..Len(bcast) :
       /\ (bcast[i].start \cap bcast[i].last) \subseteq bcast[i].tried
       /\ bcast[i].tried = bcast[i].sent \cup bcast[i].failed
       /\ bcast[i].sent \cap bcast[i].failed = {}
       /\ ~bcast[i].err
  /\ bc.pc # "idle"
       => /\ bc.tried = bc.sent \cup bc.failed
          /\ ~bc.err

\* A finished broadcast in which a send failed and the send to another
\* connection, made after the failure, was delivered.
C10_Witness ==
  \E i \in 1..Len(bcast) :
    /\ bcast[i].failed # {}
    /\ \E d \in bcast[i].late : outbuf[d] = <<Newline, Delim>>

\* The server goroutine has taken the stop request of a Stop() call while a
\* registered connection is open and has not sent EOF, and no further
\* connection is arriving.
StopTakenWithOpenClient ==
  /\ stopCalls > 0
  /\ chKill = 0
  /\ srvPc = "waitListener"
  /\ accPc \in {"accept", "sleep"}
  /\ \E c \in RangeClients(clients) : peer[c] = "open"

\* C1 (as claimed): a stop requested while client connections are open
\* completes: the stop-completion signal is eventually delivered (short of
\* a fatal runtime error, which ends the process and every wait with it).
C1_StopCompletes ==
  StopTakenWithOpenClient ~> (StopDelivered \/ ~Running)

\* C11 (as claimed): two Stop() calls that overlap do not deadlock. No
\* caller is stuck in its send with the mutex in hand while the server
\* goroutine waits for that mutex, and when the server goroutine has
\* finished, a value is there for every caller still waiting.
C11_ConcurrentStops ==
  /\ \A k \in Stoppers :
       ~(stopPc[k] = "send" /\ srvPc \in {"handle", "add"})
  /\ (srvPc = "done" /\ chStopped = 0)
       => \A k \in Stoppers : stopPc[k] = "wait" => stopCh[k] \in chRetired

\* C12 (as claimed): a call of Client.Close() never blocks for good. No
\* caller is stuck in the send on chStop while chStop is full and the
\* worker, past its select loop, will never receive from it.
C12_CloseNeverBlocks ==
  \A c \in Conns :
    ~(closePc[c] = "send" /\ chStop[c] = 1 /\ wPc[c] \in PastLoop)

\* The values taken from chDone of connection c so far: by user code and
\* by the shutdown loop.
DoneTaken(c) ==
  (IF closePc[c] = "released" THEN 1 ELSE 0)
    + (IF c \in closedBySrv /\ srvCur # c THEN 1 ELSE 0)

\* C13: a value is on, or was taken from, the channel returned by Close()
\* only when the worker has finished: it has invoked onDisconnect last,
\* its entry is out of the table and the transport is closed; and the
\* worker sends that value exactly once.
C13_DoneAfterTeardown ==
  \A c \in Conns :
    /\ chDone[c] + DoneTaken(c) <= 1
    /\ (chDone[c] + DoneTaken(c) = 1) <=> (wPc[c] = "done")
    /\ wPc[c] = "done" =>
         /\ Count(log[c], "disconnect") = 1
         /\ log[c][Len(log[c])].ev = "disconnect"
         /\ \A i \in DOMAIN clients : clients[i] # c
         /\ connClosed[c] = 1

\* User code that waited on the channel returned by Close() was released.
C13_Witness ==
  \E c \in Conns : closePc[c] = "released" /\ c \notin closedBySrv

\* C14 (as claimed): when a worker has finished, nobody is left waiting
\* on its completion channel without a value to receive, neither user
\* code nor the shutdown loop (in a run whose Accept has not failed).
C14_WaitersReleased ==
  \A c \in Conns :
    (wPc[c] = "done" /\ chDone[c] = 0 /\ ~permErr)
      => /\ closePc[c] # "wait"
         /\ ~(srvPc = "waitClient" /\ srvCur = c)

\* C15: a Start() call on a started server returns an error and changes
\* nothing: table, listener, channels, sentinel and goroutines are as
\* before.
C15_StartAgainNoEffect ==
  [][(started /\ startErrs' # startErrs)
       => /\ startErrs' = Append(startErrs, "running")
          /\ UNCHANGED <<clients, listener, chKill, chStopped, chGen,
                         chRetired, started, mu, srvPc, accPc, wPc>>]_vars

\* Start() was refused while a connection was registered.
C15_Witness ==
  started /\ startErrs = <<"running">> /\ DOMAIN clients # {}

\* C16: a Stop() call on a server that is not started returns an error and
\* changes nothing; a Stop() call gets past the check only on a started
\* server, and when it returns it has sent exactly one stop request and
\* hands out the current completion channel.
C16_StopGuard ==
  [][\A k \in Stoppers :
       /\ (~started /\ stopPc[k] = "idle" /\ stopPc'[k] # "idle")
            => /\ stopPc'[k] = "error"
               /\ UNCHANGED <<clients, listener, chKill, chStopped, chGen,
                              chRetired, started, mu, kills, srvPc, accPc>>
       /\ (stopPc[k] # "error" /\ stopPc'[k] = "error") => ~started
       /\ (stopPc[k] # "wait" /\ stopPc'[k] = "wait")
            => /\ kills' = kills + 1
               /\ chKill = 0 /\ chKill' = 1
               /\ stopCh'[k] = chGen]_vars

\* One caller has stopped the server and was released; a later call was
\* refused.
C16_Witness ==
  /\ srvPc = "done"
  /\ \E j, k \in Stoppers : stopPc[j] = "released" /\ stopPc[k] = "error"

\* C17 (as claimed): a Start() call that fails to resolve or bind leaves
\* the table, the listener, the channels and the sentinel as they were.
C17_StartFailNoEffect ==
  [][(~started /\ startErrs' # startErrs)
       => UNCHANGED <<clients, listener, chKill, chStopped, chGen, chRetired,
                      started>>]_vars

\* C18 (as claimed): after a permanent accept error, with no stop
\* requested, the server neither closes a registered connection nor
\* reports itself stopped.
C18_AcceptErrorContained ==
  (permErr /\ stopCalls = 0) => (closedBySrv = {} /\ ~StopDelivered)

\* C19 (as claimed): a step of the worker or the reader of one connection
\* leaves every other connection's worker, reader, transport, stop channel
\* and table entry as they are, and the listener, the accept goroutine
\* and the listen goroutine too.
C19_WorkerFrame ==
  [][\A c \in Conns :
       (wPc[c] # "none" /\ (wPc'[c] # wPc[c] \/ rPc'[c] # rPc[c]))
         => /\ \A d \in Conns \ {c} :
                 /\ wPc'[d] = wPc[d] /\ rPc'[d] = rPc[d]
                 /\ connClosed'[d] = connClosed[d]
                 /\ chStop'[d] = chStop[d] /\ chDone'[d] = chDone[d]
            /\ \A i \in DOMAIN clients :
                 clients[i] # c
                   => (i \in DOMAIN clients' /\ clients'[i] = clients[i])
            /\ listener' = listener
            /\ accPc' = accPc
            /\ srvPc' = srvPc]_vars

\* C20 (as claimed): a connection that Accept has returned is taken over.
\* While the accept goroutine holds a connection to hand over, the server
\* goroutine is in its select loop to receive it.
C20_NoSilentDrop ==
  (accPc = "send" /\ Running) => srvPc \in {"select", "handle", "add", "spawn"}

\* C21: the channel returned by Start() gets exactly one value, when the
\* listener is bound and the accept goroutine is launched; and before that
\* value is written no connection is registered, no identifier is handed
\* out and no callback is invoked.
C21_StartedSignal ==
  /\ chStarted + startSeen <= 1
  /\ (chStarted + startSeen = 1) <=> (srvPc \notin {"none", "listen"})
  /\ (chStarted + startSeen = 1) => (listener # "nil" /\ accPc # "none")
  /\ (chStarted + startSeen = 0)
       => /\ DOMAIN clients = {}
          /\ nextClientID = 0
          /\ \A c \in Conns : wPc[c] = "none" /\ log[c] = <<>>

\* The caller of Start() has received the value, and a connection was
\* registered and has seen onConnect afterwards.
C21_Witness ==
  /\ startSeen = 1
  /\ \E c \in Conns : id[c] \in DOMAIN clients /\ Len(log[c]) >= 1

\* C22 (as claimed): what a client wrote without any delimiter is handed
\* to onMessage, whole, once the client has closed the connection.
C22_UndelimitedDelivered ==
  \A c \in Conns :
    (/\ peer[c] = "eof"
     /\ c \notin closedBySrv
     /\ wPc[c] \in PastLoop
     /\ written[c] # <<>>
     /\ IndexByte(written[c], Delim) = 0)
      => Texts(log[c]) = <<written[c]>>

\* C23: every text handed to onMessage ends with the delimiter, holds no
\* other delimiter, and is byte for byte the message the client wrote at
\* that position of its stream.
C23_TextIncludesDelimiter ==
  \A c \in Conns :
    \A i \in 1..Len(Texts(log[c])) :
      LET m == Texts(log[c])[i]
      IN /\ Len(m) >= 1
         /\ m[Len(m)] = Delim
         /\ \A j \in 1..(Len(m) - 1) : m[j] # Delim
         /\ i <= Len(Frames(written[c]))
         /\ m = Frames(written[c])[i]

\* A client that is still connected wrote a payload byte and the
\* delimiter, and onMessage got both.
C23_Witness ==
  \E c \in Conns :
    /\ peer[c] = "open"
    /\ written[c] = <<Newline, Delim>>
    /\ Texts(log[c]) = <<written[c]>>

\* C24 (as claimed): a worker that Close() has stopped terminates. It is
\* never left waiting for its reader goroutine while the reader is held
\* in the hand-over of a message that the worker will not receive.
C24_CloseTerminates ==
  \A c \in closedBySrv :
    ~(~permErr /\ wPc[c] = "waitReader" /\ rPc[c] = "send")

\* C25 (as claimed): once the listener is closed the accept goroutine
\* leaves its loop and signals chListenerDone (short of a fatal runtime
\* error).
C25_AcceptLoopEnds ==
  (listener = "closed") ~> (accPc = "done" \/ ~Running)

\* C26: a temporary accept failure changes nothing but the accept
\* goroutine's position; after the backoff Accept is tried again; and the
\* accept loop is left only from Accept, on a closed listener or a
\* permanent error.
C26_TempErrorRetries ==
  [][/\ (accPc = "accept" /\ accPc' = "sleep")
          => UNCHANGED <<listener, srvPc, clients, chListenerDone, chStopped,
                         chKill, wPc, chStop, accConn>>
     /\ (accPc = "sleep" /\ accPc' # "sleep") => accPc' = "accept"
     /\ (accPc # "closed" /\ accPc' = "closed")
          => (accPc = "accept" /\ (listener = "closed" \/ permErr'))]_vars

\* The accept goroutine is in its backoff while the server is serving a
\* registered connection.
C26_Witness ==
  /\ accPc = "sleep"
  /\ srvPc = "select"
  /\ listener = "open"
  /\ \E c \in Conns : wPc[c] = "select" /\ id[c] \in DOMAIN clients

\* C27 (as claimed): the table is not iterated while another goroutine may
\* write it. While the shutdown loop ranges over the table, no worker
\* other than the one it waits for is about to delete its entry.
C27_RegistryUnderMutex ==
  \A c \in Conns :
    wPc[c] = "onDisconnect"
      => ~(srvPc \in {"range", "waitClient"} /\ srvCur # c)

\* The server goroutine has left its select loop (and closed the listener).
StopTaken == listener = "closed"

\* C28 (as claimed): once the server goroutine has left its select loop,
\* no connection is registered, no worker is spawned and no onConnect is
\* invoked.
C28_NothingNewAfterStop ==
  [][StopTaken
       => /\ DOMAIN clients' \subseteq DOMAIN clients
          /\ nextClientID' = nextClientID
          /\ \A c \in Conns : wPc[c] = "none" => wPc'[c] = "none"
          /\ \A c \in Conns :
               Count(log'[c], "connect") = Count(log[c], "connect")]_vars

\* C28 (amended): once the server goroutine has left its select loop, no
\* connection is registered and no worker is spawned; onConnect is invoked
\* only by workers of connections registered before; and the shutdown
\* calls Close() only on connections that are in the table.
C28_NoRegistrationAfterStop ==
  [][StopTaken
       => /\ DOMAIN clients' \subseteq DOMAIN clients
          /\ nextClientID' = nextClientID
          /\ \A c \in Conns : wPc[c] = "none" => wPc'[c] = "none"
          /\ \A c \in Conns :
               Count(log'[c], "connect") # Count(log[c], "connect")
                 => (wPc[c] = "start" /\ id[c] # -1)
          /\ closedBySrv' \subseteq closedBySrv \cup RangeClients(clients)]_vars

\* The shutdown has called Close() on a connection whose worker has not
\* invoked onConnect yet.
C28_Witness ==
  StopTaken /\ \E c \in closedBySrv : wPc[c] = "start"

\* C29: past its loop a worker has invoked onDisconnect once, then removed
\* its entry once, then closed the transport once, then received from
\* chReaderDone, then sent on chDone, in this order.
C29_TeardownOrder ==
  \A c \in Conns :
    LET disc == Count(log[c], "disconnect")
    IN /\ wPc[c] \notin PastLoop
            => (disc = 0 /\ forgets[c] = 0 /\ connClosed[c] = 0
                /\ chDone[c] = 0)
       /\ wPc[c] = "onDisconnect"
            => (disc = 1 /\ forgets[c] = 0 /\ connClosed[c] = 0
                /\ chDone[c] = 0)
       /\ wPc[c] = "connClose"
            => (disc = 1 /\ forgets[c] = 1 /\ connClosed[c] = 0
                /\ chDone[c] = 0)
       /\ wPc[c] = "waitReader"
            => (disc = 1 /\ forgets[c] = 1 /\ connClosed[c] = 1
                /\ chDone[c] = 0)
       /\ wPc[c] = "sendDone"
            => (disc = 1 /\ forgets[c] = 1 /\ connClosed[c] = 1
                /\ rPc[c] = "done" /\ chReaderDone[c] = 0 /\ chDone[c] = 0)
       /\ wPc[c] = "done"
            => (disc = 1 /\ forgets[c] = 1 /\ connClosed[c] = 1
                /\ rPc[c] = "done" /\ chReaderDone[c] = 0)

\* One worker has gone through the teardown after its client hung up,
\* another after the shutdown stopped it.
C29_Witness ==
  \E c, d \in Conns :
    /\ wPc[c] = "done" /\ peer[c] # "open" /\ c \notin closedBySrv
    /\ wPc[d] = "done" /\ peer[d] = "open" /\ d \in closedBySrv

\* C30 (as claimed): in every reachable state a connection has an entry in
\* the table, under its identifier, exactly while its worker exists and has
\* not yet removed it.
C30_EntryIffWorker ==
  \A c \in Conns :
    /\ (\E i \in DOMAIN clients : clients[i] = c)
         <=> \/ wPc[c] \in {"start", "onConnect", "select", "onMessage",
                            "onDisconnect"}
             \/ srvPc = "spawn" /\ srvCur = c
             \/ g2.pc = "spawn" /\ g2.cur = c
    /\ \A i \in DOMAIN clients : clients[i] = c => i = id[c]

C32_MessagesInOrder ==
  [][\A c \in Conns :
       /\ Count(log'[c], "message") # Count(log[c], "message")
            => /\ wPc[c] = "select"
               /\ wPc'[c] = "onMessage"
               /\ Count(log[c], "message") < Len(Frames(written[c]))
               /\ log'[c] = Append(log[c],
                    EvMessage(Frames(written[c])[Count(log[c], "message") + 1]))
       /\ wPc[c] = "onMessage" => log'[c] = log[c]]_vars

\* onMessage runs for the second message of a connection whose client has
\* sent two different messages, the longer one first.
C32_Witness ==
  \E c \in Conns :
    /\ wPc[c] = "onMessage"
    /\ Count(log[c], "message") = 2
    /\ written[c] = <<Newline, Delim, Delim>>
    /\ Texts(log[c]) = <<(<<Newline, Delim>>), (<<Delim>>)>>

\* C33: when a worker invokes onConnect its connection is in the table
\* under its identifier and stays there while the callback runs, and a
\* SendBytesAll call made from inside onConnect makes a send to that
\* connection.
C33_RegisteredAtConnect ==
  [][/\ \A c \in Conns :
          wPc'[c] = "onConnect"
            => (id'[c] \in DOMAIN clients' /\ clients'[id'[c]] = c)
     /\ Len(bcast') > Len(bcast)
          => \A c \in Conns :
               (bc.caller = c /\ wPc[c] = "onConnect")
                 => c \in bcast'[Len(bcast')].tried]_vars

\* A worker is inside onConnect, the callback has made a SendBytesAll call
\* that has returned, and its own connection has got the payload.
C33_Witness ==
  \E c \in Conns :
    /\ wPc[c] = "onConnect"
    /\ log[c] = <<EvConnect>>
    /\ \E i \in 1..Len(bcast) : bcast[i].caller = c /\ c \in bcast[i].sent
    /\ outbuf[c] = <<Newline, Delim>>

\* C37: with nobody receiving from the channels that Start(), Stop() and
\* Close() return, each goroutine finds room in its channel whenever it is
\* about to report: the server goroutine for "started" and "stopped", a
\* worker for "done".
C37_ReportsNeverBlock ==
  /\ srvPc = "listen" => chStarted = 0
  /\ (srvPc = "range" /\ RangeClients(clients) = {}) => chStopped = 0
  /\ \A c \in Conns : wPc[c] = "sendDone" => chDone[c] = 0

\* The shutdown is over with "started" and "stopped" never received, and
\* a worker that user code stopped with Close(), without waiting on the
\* returned channel, has finished.
C37_Witness ==
  /\ srvPc = "done"
  /\ chStarted = 1 /\ startSeen = 0
  /\ chStopped = 1
  /\ \E c \in Conns :
       /\ wPc[c] = "done" /\ chDone[c] = 1
       /\ c \notin closedBySrv /\ peer[c] = "open" /\ closePc[c] = "idle"

\* C38: a worker that has sent on chDone, or whose value is on chDone, has
\* a reader goroutine that has run to its end, and has taken the reader's
\* signal; the reader holds no message and waits for nothing.
C38_ReaderGoneAtDone ==
  \A c \in Conns :
    (wPc[c] = "done" \/ chDone[c] = 1)
      => /\ rPc[c] = "done"
         /\ chReaderDone[c] = 0
         /\ rPc[c] \notin {"read", "send"}

\* A worker stopped by the shutdown while its client was connected and had
\* sent a message has finished.
C38_Witness ==
  \E c \in closedBySrv :
    /\ wPc[c] = "done"
    /\ rPc[c] = "done"
    /\ peer[c] = "open"
    /\ Count(log[c], "message") >= 1

\* C34 (as claimed): whenever the sentinel is false no run of the server
\* is live (here: without any accept error): the table is empty, the
\* listener is closed or was never bound, and neither the accept goroutine
\* nor a worker is running.
C34_NotStartedMeansIdle ==
  (~started /\ ~permErr)
    => /\ DOMAIN clients = {}
       /\ listener \in {"nil", "closed"}
       /\ accPc \in {"none", "done"}
       /\ \A c \in Conns : wPc[c] \in {"none", "done"}

\* C35: when a caller of Stop() has received the completion of the first
\* run, the sentinel is false, the listen goroutine has returned and the
\* mutex is free, so Start() is not refused; a Start() on a server whose
\* listen goroutine has returned gives no error and leaves a started
\* server with an empty table, a bound listener and new, empty channels.
C35_RestartWorks ==
  [][/\ (StopObserved /\ chGen = 1)
          => (~started /\ srvPc = "done" /\ mu = 0)
     /\ (srvPc = "done" /\ srvPc' # "done")
          => /\ srvPc' = "listen"
             /\ startErrs' = startErrs
             /\ started'
             /\ clients' = << >>
             /\ listener' = "open"
             /\ chKill' = 0 /\ chStopped' = 0
             /\ chGen' = chGen + 1]_vars

\* The second run is over as well: each of two callers of Stop() stopped
\* one run and received its completion, from different channels, and the
\* shutdown closed a connection.
C35_Witness ==
  /\ chGen = 2
  /\ lateDone = 0
  /\ startErrs = <<>>
  /\ srvPc = "done"
  /\ ~started
  /\ \A k \in Stoppers : stopPc[k] = "released"
  /\ stopCh[1] # stopCh[2]
  /\ closedBySrv # {}

\* C36: no Start() changes the identifier counter, the counter never goes
\* down, an identifier once given stays, and over all runs of one Server
\* value every identifier is below the counter and no two connections have
\* the same.
C36_NoReuseAcrossRuns ==
  [][/\ nextClientID' >= nextClientID
     /\ chGen' # chGen => nextClientID' = nextClientID
     /\ \A c \in Conns :
          /\ id[c] # -1 => (id'[c] = id[c] /\ id[c] < nextClientID)
          /\ \A d \in Conns \ {c} :
               (id'[c] # -1 /\ id'[d] # -1) => id'[c] # id'[d]]_vars

\* The second run serves a connection registered in it, with identifier 1,
\* after the shutdown of the first run closed the connection with
\* identifier 0.
C36_Witness ==
  /\ chGen = 2
  /\ started
  /\ srvPc = "select"
  /\ \E c \in closedBySrv : id[c] = 0 /\ wPc[c] = "done"
  /\ 1 \in DOMAIN clients /\ id[clients[1]] = 1

====
